---- MODULE Spec2Model ----
(***************************************************************************)
(* A model of the game logic of no_communication_0 (Bevy 0.12): the        *)
(* inventory (src/src/inventory.rs), the wave state machine                *)
(* (src/src/state.rs), the weapon cooldown gate and the melee swings       *)
(* (src/src/weapon.rs), health and death (src/src/health.rs), projectiles  *)
(* (src/src/projectile.rs), the shop (src/src/shop.rs) and the intents of  *)
(* the actors (src/src/player.rs).                                         *)
(*                                                                         *)
(* Each subsystem has its own specification (SpecInventory, SpecState,     *)
(* SpecWeapon, SpecHealth, SpecMelee, SpecProjectile, SpecShop,            *)
(* SpecIntent) over the shared variables; the variables of the other       *)
(* subsystems stay at their idle values.                                   *)
(*                                                                         *)
(* Numbers.  A u32 is modelled by its residue modulo 2^32 with the         *)
(* representative in -2^31 .. 2^31-1 (two's complement): 0xFFFFFFFF is -1. *)
(* With the small operands of the model, + and - on representatives are    *)
(* exactly the wrapping operations; the comparison is the unsigned one     *)
(* (U32Ge).  f32 seconds are fixed point, in hundredths of a second;       *)
(* cooldown_mul is in percent.                                             *)
(***************************************************************************)
EXTENDS Integers, Sequences, FiniteSets, TLC

VARIABLES
    \* ---- inventory.rs
    items,            \* Inventory.items: HashMap<Item, u32>, a function on the stored keys
    inv_call,         \* the last Inventory call: operation, arguments, result, inventory before
    inv_fault,        \* "none", or the panic that ended the process
    overflow_checks,  \* build profile: TRUE panics on integer overflow, FALSE wraps
    \* ---- state.rs, and the part of the world its run conditions read
    app_state,        \* the AppState resource
    frame_count,      \* the engine's FrameCount resource
    num_waves,        \* wave.0.len() of the descriptors file
    waves_loaded,     \* Assets<WaveDescriptorsAsset>::get(handle) is Some
    wave_descriptor,  \* the descriptor handle_next_wave read last
    robots,           \* number of entities whose Body is Robot, FastRobot or Boss
    trees,            \* number of entities with TreeTrunkTag
    player,           \* an entity with PlayerControllerTag exists
    spawn_player_event,     \* SpawnPlayerEvents sent and not yet read by spawn_players
    spawn_shop_item_event,  \* number of SpawnShopItemEvents sent and not yet read
    notification_event,     \* NotificationEvents sent and not yet read
    lost_command,     \* handle_loss's insert_resource(AppState::Lost) is queued
    schedule,         \* "Update" or "Last": the schedule about to run or running
    last_ran,         \* the systems of Last that ran or were skipped in this tick
    last_entry,       \* app_state and frame_count as Last began in this tick
    state_fault,      \* "none", or the panic that ended the process
    startup_trees,    \* the trees setup asked for: "trigger" (TriggerSpawnTrees unread),
                      \* "events" (SpawnTreeEvents unread) or "done" (spawned)
    boss_requests,    \* history: SpawnPlayerEvents for a Boss sent so far
    wave_emitted,     \* history: how often each descriptor's batch and offers were emitted
    \* ---- weapon.rs
    time_left,        \* WeaponCooldown.time_left of each caster
    cooldown_mul,     \* WeaponStats.cooldown_mul of each caster
    weapon_type,      \* the WeaponType component of each caster
    try_cast_events,  \* TryCastWeaponEvents sent and not yet read: their caster_entity
    cast_events,      \* CastWeaponEvents sent in this tick
    delta,            \* time.delta_seconds() as update_cooldown read it in this tick
    weapon_step,      \* the system about to run: "Update", then the PostUpdate chain
    ticks,            \* ticks begun
    buys,             \* MultiplyCooldown effects applied
    tried,            \* history: the casters whose intents promote_try_cast read in this tick
    since_cast,       \* history: time elapsed since each caster's last cast, -1 before it
    cast_cooldown,    \* history: the time_left each caster's last cast set
    prev_gap,         \* history: time elapsed between each caster's last two casts, -1 before
    \* ---- health.rs
    health,           \* the Health component of each living entity that has one
    entities,         \* the entities that exist
    despawn_commands, \* despawn_0_system's queued despawn_recursive commands: their entity
    sound_commands,   \* despawn_0_system's queued death sounds: the entity that died
    health_ran,       \* the health systems of Update that ran in this tick
    health_events,    \* history: the ApplyHealthEvents apply_health_events read in this tick
    health_before,    \* history: health as apply_health_events found it in this tick
    despawns,         \* history: despawn commands issued for each entity
    death_sounds,     \* history: death sounds played for each entity
    overkilled,       \* history: entities that were sent a negative amount while dead
    \* ---- weapon.rs, the melee swings
    melee_pos,        \* GlobalTransform.translation() of each body, a point of the grid
    damage_add,       \* WeaponStats.damage_add of the melee caster
    melee_cast_events,      \* CastWeaponEvents of this tick
    melee_reported,   \* the colliders the shape query reports around the caster, in its order
    melee_ran,        \* the cast systems of PostUpdate that ran in this tick
    melee_health_events,    \* ApplyHealthEvents the cast systems sent in this tick
    spawn_projectile_event, \* SpawnProjectileEvents cast_projectiles sent in this tick
    melee_swings,     \* history: what each swing of this tick examined and sent
    \* ---- projectile.rs
    projectile_asset,       \* the ProjectileAsset of the file: damage and max_hits
    asset_ready,      \* Assets<ProjectileAsset>::get(handle) is Some
    projectile,       \* the Projectile component of each projectile entity that exists
    spawned,          \* projectile entities spawned so far; they are numbered from 1
    projectile_spawn_commands,    \* spawn_projectile's queued spawns
    projectile_despawn_commands,  \* update's queued despawn_recursive commands
    projectile_ran,   \* the projectile systems of Update that ran in this tick
    projectile_health_events,     \* ApplyHealthEvents update sent in this tick
    emitted,          \* history: ApplyHealthEvents each projectile has sent in its life
    caster_damage_add,      \* WeaponStats.damage_add of each caster
    projectile_events,      \* the SpawnProjectileEvents cast_projectiles sent, unread
    cast_log,         \* history: the caster's damage_add when each event was sent
    ray_log,          \* history: what each projectile's ray crossed and sent in this tick
    \* ---- shop.rs; the buyer's Inventory is items
    shop_item,        \* the ShopItem component of each offer entity that exists
    just_clicked,     \* the offer entities that carry JustClicked
    buy_event,        \* BuyEvents sent and not yet read by buy_items: their item
    buyer_alive,      \* the entity with PlayerControllerTag exists
    shop_stats,       \* the buyer's WeaponStats
    shop_despawn_commands,  \* buy_items's queued despawn_recursive commands
    shop_sent,        \* the effect events buy_items sent in this tick
    shop_ran,         \* the shop systems of Update that ran in this tick
    clicks,           \* BuyEvents sent so far
    shop_log,         \* history: what buy_items did with each BuyEvent of this tick
    \* ---- player.rs, the intents
    player_input,     \* the PlayerInput component of each actor
    robot_target,     \* RobotController.target of the robot
    intent_ran,       \* the intent systems of Update that ran in this tick
    produced,         \* history: the intents the gathering systems wrote in this tick
    applied,          \* history: the intents apply_movement and apply_attack read in this tick
    robot_saw,        \* history: what robot_ai read and did in this tick
    \* ---- health.rs, the Events<ApplyHealthEvent> resource and its reader
    queue,            \* the two buffers and the count of events sent so far
    queue_cursor,     \* last_event_count of apply_health_events' EventReader
    queue_phase,      \* "First", "Update" or "PostUpdate"
    queue_ran,        \* the systems of Update that ran in this tick
    queue_health,     \* the target's Health
    queue_alive,      \* the target has not been despawned
    queue_sent,       \* history: every event sent, in the order sent
    queue_applied,    \* history: the ids of the events applied, in the order applied
    queue_skipped,    \* history: the ids of the events read when the target was gone
    queue_last_read,  \* history: the events the reader's last step read
    queue_tick_start, \* history: the count of events sent when the tick began
    \* ---- pickup.rs and item_pickups.rs, one item pickup at a time
    pickup,           \* the pickup entity: its id, ItemPickup, FlyToEntity and DespawnAfter
    receiver_alive,   \* the entity the PickupMagnet names exists
    receiver_items,   \* the receiver's Inventory
    pickup_events,    \* the OnPickedUpEvents of this tick
    pickup_commands,  \* the queued commands of the running schedule
    pickup_phase,     \* "PreUpdate", "Update" or "Last"
    pickup_ran,       \* the systems of the phase that ran in this tick
    pickup_delta,     \* Time::delta_seconds of this tick
    pickup_adds,      \* history: add_item calls made for each pickup
    pickup_sent,      \* history: OnPickedUpEvents sent for each pickup
    pickup_log        \* history: this tick's inventory before, adding and despawn

invVars == <<items, inv_call, inv_fault>>

stateVars == <<app_state, frame_count, num_waves, waves_loaded, wave_descriptor, robots,
               trees, player, spawn_player_event, spawn_shop_item_event,
               notification_event, lost_command, schedule, last_ran, last_entry,
               state_fault, startup_trees, boss_requests, wave_emitted>>

weaponVars == <<time_left, cooldown_mul, weapon_type, try_cast_events, cast_events, delta,
                weapon_step, ticks, buys, tried, since_cast, cast_cooldown, prev_gap>>

healthVars == <<health, entities, despawn_commands, sound_commands, health_ran,
                health_events, health_before, despawns, death_sounds, overkilled>>

meleeVars == <<melee_pos, damage_add, melee_cast_events, melee_reported, melee_ran,
               melee_health_events, spawn_projectile_event, melee_swings>>

projectileVars == <<projectile_asset, asset_ready, projectile, spawned,
                    projectile_spawn_commands, projectile_despawn_commands,
                    projectile_ran, projectile_health_events, emitted,
                    caster_damage_add, projectile_events, cast_log, ray_log>>

shopVars == <<shop_item, just_clicked, buy_event, buyer_alive, shop_stats,
              shop_despawn_commands, shop_sent, shop_ran, clicks, shop_log>>

intentVars == <<player_input, robot_target, intent_ran, produced, applied, robot_saw>>

pickupVars == <<pickup, receiver_alive, receiver_items, pickup_events, pickup_commands,
                pickup_phase, pickup_ran, pickup_delta, pickup_adds, pickup_sent, pickup_log>>

queueVars == <<queue, queue_cursor, queue_phase, queue_ran, queue_health, queue_alive,
               queue_sent, queue_applied, queue_skipped, queue_last_read, queue_tick_start>>

\* what an action of one subsystem leaves alone
notInventory == <<stateVars, weaponVars, healthVars, meleeVars, projectileVars, shopVars, intentVars,
    queueVars, pickupVars>>
notState == <<invVars, overflow_checks, weaponVars, healthVars, meleeVars, projectileVars, shopVars, intentVars,
    queueVars, pickupVars>>
notWeapon == <<invVars, overflow_checks, stateVars, healthVars, meleeVars, projectileVars, shopVars, intentVars,
    queueVars, pickupVars>>
notHealth == <<invVars, overflow_checks, stateVars, weaponVars, meleeVars, projectileVars, shopVars, intentVars,
    queueVars, pickupVars>>
notMelee == <<invVars, overflow_checks, stateVars, weaponVars, healthVars, projectileVars, shopVars, intentVars,
    queueVars, pickupVars>>
notProjectile == <<invVars, overflow_checks, stateVars, weaponVars, healthVars, meleeVars, shopVars, intentVars,
    queueVars, pickupVars>>
notShop == <<inv_call, stateVars, weaponVars, healthVars, meleeVars, projectileVars,
             intentVars, queueVars, pickupVars>>
notIntent == <<invVars, overflow_checks, stateVars, weaponVars, healthVars, meleeVars,
               projectileVars, shopVars, queueVars, pickupVars>>
notQueue == <<invVars, overflow_checks, stateVars, weaponVars, healthVars, meleeVars,
              projectileVars, shopVars, intentVars, pickupVars>>
notPickup == <<invVars, overflow_checks, stateVars, weaponVars, healthVars, meleeVars,
               projectileVars, shopVars, intentVars, queueVars>>

(***************************************************************************)
(* Bounds of the model.                                                    *)
(***************************************************************************)
MaxCount == 2      \* largest count passed to an inventory call
MaxBatch == 2      \* longest batch passed to spend_items
MaxStock == 2      \* add_item is not called beyond this count of an item
MaxWaves == 3      \* longest descriptors file
MaxEnemies == 2    \* largest nb_enemies of a descriptor
MaxShopItems == 1  \* most new_shop_items of a descriptor
MaxTrees == 1      \* most tree trunks alive at once
MaxFrame == 5      \* the frame counter stops counting here (only f.0 > 3 is read)
MaxTicks == 3      \* ticks of the weapon schedule
MaxTry == 2        \* most TryCastWeaponEvents sent in a tick
MaxBuys == 1       \* most MultiplyCooldown effects bought
MaxHealth == 2     \* largest argument of Health::new
MaxEvents == 2     \* most ApplyHealthEvents read in a tick
MaxCasts == 1      \* most CastWeaponEvents of a tick
MaxReported == 3   \* most colliders a shape query reports
MaxProjectiles == 1  \* projectiles spawned in a run
MaxRay == 2        \* most colliders a projectile's ray crosses in a tick
MaxBudget == 2     \* largest max_hits of a projectile file
MaxClicks == 1     \* BuyEvents sent in a run
MaxSent == 4       \* ApplyHealthEvents sent in a run
MaxAdd == 1        \* largest damage_add bought
MaxPickups == 2    \* item pickups spawned in a run
MaxLifetime == 4   \* longest remaining DespawnAfter of a pickup the model follows

(***************************************************************************)
(* inventory.rs                                                            *)
(***************************************************************************)
Item == {"Log", "Banana", "Apple"}

U32Ge(a, b) == IF (a >= 0) = (b >= 0) THEN a >= b ELSE a < 0

EmptyMap == [i \in {} |-> 0]

MapInsert(m, k, v) == [i \in DOMAIN m \cup {k} |-> IF i = k THEN v ELSE m[i]]

MapRemove(m, k) == [i \in DOMAIN m \ {k} |-> m[i]]

get_item_count(inv, item) == IF item \in DOMAIN inv THEN inv[item] ELSE 0

\* *self.items.entry(item).or_insert(0) += count
add_item(inv, item, count, checks) ==
    LET old == get_item_count(inv, item)
        new == old + count
    IN  IF ~U32Ge(new, old) /\ checks
        THEN [items |-> MapInsert(inv, item, old), fault |-> "overflow"]
        ELSE [items |-> MapInsert(inv, item, new), fault |-> "none"]

\* get_mut(&item).is_some_and(|c| checked_sub ...), then remove at zero
spend_item(inv, item, count) ==
    IF item \in DOMAIN inv /\ U32Ge(inv[item], count)
    THEN LET new_count == inv[item] - count
         IN  [items |-> IF new_count = 0 THEN MapRemove(inv, item)
                                         ELSE MapInsert(inv, item, new_count),
              ret |-> TRUE]
    ELSE [items |-> inv, ret |-> FALSE]

\* items.clone().all(|(item, c)| self.items.get(&item).map_or(false, |count| *count >= c))
AllAvailable(inv, batch) ==
    \A k \in 1..Len(batch) :
        /\ batch[k][1] \in DOMAIN inv
        /\ U32Ge(inv[batch[k][1]], batch[k][2])

\* the body of the for loop of spend_items, for one pair
DeductPair(inv, item, count, checks) ==
    IF item \notin DOMAIN inv
    THEN [items |-> inv, fault |-> "expect"]
    ELSE IF ~U32Ge(inv[item], count) /\ checks
    THEN [items |-> inv, fault |-> "overflow"]
    ELSE LET c == inv[item] - count
         IN  [items |-> IF c = 0 THEN MapRemove(inv, item) ELSE MapInsert(inv, item, c),
              fault |-> "none"]

RECURSIVE DeductAll(_, _, _, _)
DeductAll(inv, batch, k, checks) ==
    IF k > Len(batch)
    THEN [items |-> inv, fault |-> "none"]
    ELSE LET r == DeductPair(inv, batch[k][1], batch[k][2], checks)
         IN  IF r.fault # "none" THEN r ELSE DeductAll(r.items, batch, k + 1, checks)

\* spend_items written as interleaved checks: spend_item pair by pair, stopping
\* at the first pair that cannot be paid
RECURSIVE SpendEach(_, _, _)
SpendEach(inv, batch, k) ==
    IF k > Len(batch)
    THEN [items |-> inv, fault |-> "none", ret |-> TRUE]
    ELSE LET r == spend_item(inv, batch[k][1], batch[k][2])
         IN  IF r.ret THEN SpendEach(r.items, batch, k + 1)
                      ELSE [items |-> r.items, fault |-> "none", ret |-> FALSE]

spend_items_interleaved(inv, batch, checks) == SpendEach(inv, batch, 1)

spend_items(inv, batch, checks) ==
    IF AllAvailable(inv, batch)
    THEN LET r == DeductAll(inv, batch, 1, checks)
         IN  [items |-> r.items, fault |-> r.fault, ret |-> r.fault = "none"]
    ELSE [items |-> inv, fault |-> "none", ret |-> FALSE]

Pairs == Item \X (0..MaxCount)

Batches == UNION {[1..n -> Pairs] : n \in 0..MaxBatch}

NoCall == [op |-> "none", batch |-> <<>>, ret |-> FALSE, before |-> EmptyMap]

InitInventory ==
    /\ items = EmptyMap
    /\ inv_call = NoCall
    /\ inv_fault = "none"

\* A call is made by a live process that is not inside another call; the model
\* follows a process up to its first wrapped count.
CanCall ==
    /\ inv_fault = "none"
    /\ inv_call.op = "none"
    /\ \A i \in DOMAIN items : items[i] >= 0

AddItem ==
    /\ CanCall
    /\ \E item \in Item, count \in 0..MaxCount :
          /\ get_item_count(items, item) + count <= MaxStock
          /\ LET r == add_item(items, item, count, overflow_checks)
             IN  /\ items' = r.items
                 /\ inv_fault' = r.fault
                 /\ inv_call' = [op |-> "add_item", batch |-> <<<<item, count>>>>,
                                 ret |-> TRUE, before |-> items]
    /\ UNCHANGED <<overflow_checks, notInventory>>

SpendItem ==
    /\ CanCall
    /\ \E item \in Item, count \in 0..MaxCount :
          LET r == spend_item(items, item, count)
          IN  /\ items' = r.items
              /\ inv_call' = [op |-> "spend_item", batch |-> <<<<item, count>>>>,
                              ret |-> r.ret, before |-> items]
    /\ UNCHANGED <<inv_fault, overflow_checks, notInventory>>

SpendItems ==
    /\ CanCall
    /\ \E batch \in Batches :
          LET r == spend_items(items, batch, overflow_checks)
          IN  /\ items' = r.items
              /\ inv_fault' = r.fault
              /\ inv_call' = [op |-> "spend_items", batch |-> batch,
                              ret |-> r.ret, before |-> items]
    /\ UNCHANGED <<overflow_checks, notInventory>>

\* the caller has read the result
InventoryReturn ==
    /\ inv_fault = "none"
    /\ inv_call.op # "none"
    /\ inv_call' = NoCall
    /\ UNCHANGED <<items, inv_fault, overflow_checks, notInventory>>

NextInventory == AddItem \/ SpendItem \/ SpendItems \/ InventoryReturn

(***************************************************************************)
(* state.rs: the wave state machine.  A tick is the Update schedule (one   *)
(* action: what spawning, combat and planting do to the entities the run   *)
(* conditions count) followed by the Last schedule (one action per system, *)
(* in any order the schedule allows, then the deferred commands).          *)
(***************************************************************************)
Wave(n) == [k |-> "Wave", w |-> n]
Lost == [k |-> "Lost", w |-> 0]
Win == [k |-> "Win", w |-> 0]

Hostile == {"Robot", "FastRobot", "Boss"}

NoDescriptor == [nb_enemies |-> 0, new_shop_items |-> 0]

WaveDescriptor == [nb_enemies : 0..MaxEnemies, new_shop_items : 0..MaxShopItems]

Note(text, n) == [text |-> text, n |-> n]

SpawnPlayerEvent(body, is_main, weapon) ==
    [body |-> body, is_main |-> is_main, weapon_type |-> weapon]

\* the systems of Last without the frame guard
FrameOkFromStart == frame_count >= 0

\* .run_if(|f: Res<FrameCount>| f.0 > 3)
FrameOk == frame_count > 3

\* check_for_no_robots
check_for_no_robots == robots = 0

\* check_for_loss
check_for_loss == trees = 0 \/ ~player

\* reached_max_wave; max_wave-1 overflows when the file holds no descriptor
ReachedMaxOverflows == waves_loaded /\ num_waves = 0

\* reached_max_wave comparing with max_wave instead of max_wave-1
reached_max_wave_off_by_one ==
    /\ waves_loaded
    /\ app_state.k = "Wave"
    /\ app_state.w = num_waves

reached_max_wave ==
    /\ waves_loaded
    /\ app_state.k = "Wave"
    /\ app_state.w = num_waves - 1

\* the loop body with the Boss test before the FastRobot test, which overrides it
EnemyBodyFastLast(i, nb_enemies, is_last_wave) ==
    IF 10 * i > 7 * nb_enemies THEN "FastRobot"
    ELSE IF is_last_wave /\ i = nb_enemies THEN "Boss"
    ELSE "Robot"

\* the body of the for loop of handle_next_wave: p = i / nb_enemies > 0.7
EnemyBody(i, nb_enemies, is_last_wave) ==
    IF is_last_wave /\ i = nb_enemies THEN "Boss"
    ELSE IF 10 * i > 7 * nb_enemies THEN "FastRobot"
    ELSE "Robot"

\* the loop written for i in 1..nb_enemies, which leaves out the last enemy
EnemyBatchShort(nb_enemies, is_last_wave) ==
    [i \in 1..(nb_enemies - 1) |->
        SpawnPlayerEvent(EnemyBody(i, nb_enemies, is_last_wave), FALSE, "Axe")]

EnemyBatch(nb_enemies, is_last_wave) ==
    [i \in 1..nb_enemies |->
        SpawnPlayerEvent(EnemyBody(i, nb_enemies, is_last_wave), FALSE, "Axe")]

\* main.rs setup: the state after the Startup schedule
InitState ==
    /\ app_state = Wave(0)
    /\ frame_count = 0
    /\ num_waves \in 0..MaxWaves
    /\ waves_loaded = FALSE
    /\ wave_descriptor = NoDescriptor
    /\ robots = 0
    /\ trees = 0
    /\ player = FALSE
    /\ spawn_player_event = <<SpawnPlayerEvent("Monkey", TRUE, "Bow"),
                              SpawnPlayerEvent("Robot", FALSE, "Axe")>>
    /\ spawn_shop_item_event = 2
    /\ notification_event = <<Note("Protect The Trees!", 0), Note("Wave", 1)>>
    /\ lost_command = FALSE
    /\ schedule = "Update"
    /\ last_ran = {}
    /\ last_entry = [app_state |-> Wave(0), frame_count |-> 0]
    /\ state_fault = "none"
    /\ startup_trees = "trigger"
    /\ boss_requests = 0
    /\ wave_emitted = [k \in 0..(MaxWaves + 1) |-> 0]

CountBoss(events) == Cardinality({i \in 1..Len(events) : events[i].body = "Boss"})

CountHostile(events) == Cardinality({i \in 1..Len(events) : events[i].body \in Hostile})

\* The Update schedule: spawn_players, spawn_shop_items and spawn_notifications
\* read their events; combat removes entities; trees are planted; the
\* descriptors file may finish loading.  Commands apply at the end of Update,
\* so an entity spawned in this tick is not removed in it.  setup_trees turns
\* the TriggerSpawnTrees of setup into SpawnTreeEvents, which spawn_trees reads
\* in the same tick if it runs after setup_trees and in the next if before.
UpdateSchedule ==
    /\ state_fault = "none"
    /\ schedule = "Update"
    /\ \E killed \in 0..robots, felled \in 0..trees, planted \in 0..(MaxTrees - trees),
          dies \in BOOLEAN, loads \in BOOLEAN :
          /\ startup_trees' \in IF startup_trees = "trigger" THEN {"events", "done"}
                                                              ELSE {"done"}
          /\ startup_trees' # "done" => planted = 0
          /\ robots' = robots - killed + CountHostile(spawn_player_event)
          /\ trees' = trees - felled + planted
          /\ player' = IF \E i \in 1..Len(spawn_player_event) : spawn_player_event[i].is_main
                       THEN TRUE
                       ELSE player /\ ~dies
          /\ waves_loaded' = (waves_loaded \/ loads)
    /\ spawn_player_event' = <<>>
    /\ spawn_shop_item_event' = 0
    /\ notification_event' = <<>>
    /\ schedule' = "Last"
    /\ last_ran' = {}
    /\ last_entry' = [app_state |-> app_state, frame_count |-> frame_count]
    /\ UNCHANGED <<app_state, frame_count, num_waves, wave_descriptor, lost_command,
                   state_fault, boss_requests, wave_emitted, notState>>

InLast(system) ==
    /\ state_fault = "none"
    /\ schedule = "Last"
    /\ system \notin last_ran
    /\ last_ran' = last_ran \cup {system}

WorldUnchanged ==
    UNCHANGED <<num_waves, waves_loaded, robots, trees, player, schedule, last_entry,
                startup_trees, notState>>

\* handle_win and its run conditions (every condition is evaluated)
HandleWin ==
    /\ InLast("handle_win")
    /\ IF ReachedMaxOverflows /\ overflow_checks
       THEN /\ state_fault' = "overflow"
            /\ UNCHANGED <<app_state, notification_event>>
       ELSE /\ state_fault' = state_fault
            /\ IF check_for_no_robots /\ reached_max_wave /\ FrameOk /\ app_state.k = "Wave"
               THEN /\ app_state' = Win
                    /\ notification_event' = Append(notification_event, Note("You Win!", 0))
               ELSE UNCHANGED <<app_state, notification_event>>
    /\ UNCHANGED <<frame_count, wave_descriptor, spawn_player_event, spawn_shop_item_event,
                   lost_command, boss_requests, wave_emitted>>
    /\ WorldUnchanged

\* handle_next_wave and its run conditions; it is ordered after handle_win
HandleNextWave ==
    /\ InLast("handle_next_wave")
    /\ "handle_win" \in last_ran
    /\ IF ReachedMaxOverflows /\ overflow_checks
       THEN /\ state_fault' = "overflow"
            /\ UNCHANGED <<app_state, wave_descriptor, spawn_player_event,
                           spawn_shop_item_event, notification_event>>
       ELSE IF ~(check_for_no_robots /\ app_state.k = "Wave" /\ ~reached_max_wave /\ FrameOk)
       THEN UNCHANGED <<state_fault, app_state, wave_descriptor, spawn_player_event,
                        spawn_shop_item_event, notification_event>>
       ELSE LET wave == app_state.w + 1
            IN  /\ app_state' = Wave(wave)
                /\ IF ~waves_loaded
                   THEN /\ state_fault' = "unwrap"
                        /\ UNCHANGED <<wave_descriptor, spawn_player_event,
                                       spawn_shop_item_event, notification_event>>
                   ELSE IF wave >= num_waves
                   THEN /\ state_fault' = "index"
                        /\ UNCHANGED <<wave_descriptor, spawn_player_event,
                                       spawn_shop_item_event, notification_event>>
                   ELSE \E d \in WaveDescriptor :
                          /\ wave_descriptor' = d
                          /\ spawn_player_event' = spawn_player_event \o
                                EnemyBatch(d.nb_enemies, num_waves - 1 = wave)
                          /\ spawn_shop_item_event' = spawn_shop_item_event + d.new_shop_items
                          /\ notification_event' = Append(notification_event, Note("Wave", wave))
                          /\ state_fault' = state_fault
    /\ wave_emitted' = IF notification_event' # notification_event
                       THEN [wave_emitted EXCEPT ![app_state'.w] = @ + 1]
                       ELSE wave_emitted
    /\ boss_requests' = boss_requests + CountBoss(spawn_player_event')
                                       - CountBoss(spawn_player_event)
    /\ UNCHANGED <<frame_count, lost_command>>
    /\ WorldUnchanged

\* handle_loss running in every state
not_lost_always == TRUE

\* handle_loss's run condition on the state: !resource_equals(AppState::Lost)
not_lost == app_state # Lost

\* handle_loss and its run conditions; unordered in Last
HandleLoss ==
    /\ InLast("handle_loss")
    /\ IF check_for_loss /\ not_lost /\ FrameOk
       THEN /\ notification_event' = Append(notification_event, Note("You Lost!", 0))
            /\ lost_command' = TRUE
       ELSE UNCHANGED <<notification_event, lost_command>>
    /\ UNCHANGED <<app_state, frame_count, wave_descriptor, spawn_player_event,
                   spawn_shop_item_event, state_fault, boss_requests, wave_emitted>>
    /\ WorldUnchanged

\* the engine's update_frame_count, a system of Last
UpdateFrameCount ==
    /\ InLast("update_frame_count")
    /\ frame_count' = IF frame_count < MaxFrame THEN frame_count + 1 ELSE frame_count
    /\ UNCHANGED <<app_state, wave_descriptor, spawn_player_event, spawn_shop_item_event,
                   notification_event, lost_command, state_fault, boss_requests,
                   wave_emitted>>
    /\ WorldUnchanged

LastSystems == {"handle_win", "handle_next_wave", "handle_loss", "update_frame_count"}

\* the end of Last: the queued commands are applied
ApplyDeferred ==
    /\ state_fault = "none"
    /\ schedule = "Last"
    /\ last_ran = LastSystems
    /\ app_state' = IF lost_command THEN Lost ELSE app_state
    /\ lost_command' = FALSE
    /\ schedule' = "Update"
    /\ UNCHANGED <<frame_count, num_waves, waves_loaded, wave_descriptor, robots, trees,
                   player, spawn_player_event, spawn_shop_item_event, notification_event,
                   last_ran, last_entry, state_fault, startup_trees, boss_requests,
                   wave_emitted,
                   notState>>

NextState ==
    \/ UpdateSchedule
    \/ HandleWin
    \/ HandleNextWave
    \/ HandleLoss
    \/ UpdateFrameCount
    \/ ApplyDeferred


(***************************************************************************)
(* weapon.rs: the cooldown gate.  Times are in hundredths of a second.     *)
(***************************************************************************)
WeaponType == {"Axe", "Bow", "SledgeHammer"}

\* the entities that carry WeaponCooldown, WeaponType and WeaponStats: an actor
\* spawned by spawn_players and a tower
Casters == {"actor", "tower"}

\* an entity without the weapon components
Bare == "bare"

\* frame durations
Deltas == {20, 70}

\* the amounts of the MultiplyCooldown shop effect, in percent
Amounts == {50, 0}

cooldown_flat(type) == 40

cooldown(type) ==
    CASE type = "Axe" -> 40
      [] type = "Bow" -> 60
      [] type = "SledgeHammer" -> 140

\* weapon_type.cooldown() * stats.cooldown_mul
CooldownProduct(type, mul) == (cooldown(type) * mul) \div 100

OnCooldownNever(t) == FALSE

\* cooldown.time_left > 0.0
OnCooldown(t) == t > 0

CastWeaponEvent(caster, type) == [caster_entity |-> caster, weapon_type |-> type]

\* the components spawn_players gives an actor: the player's bow, a robot's or
\* the boss's axe, a fast robot's axe; and the third weapon type a
\* SpawnPlayerEvent can name
ActorLoadouts ==
    { [weapon_type |-> "Bow", cooldown_mul |-> 100, time_left |-> 0],
      [weapon_type |-> "Axe", cooldown_mul |-> 100, time_left |-> 0],
      [weapon_type |-> "Axe", cooldown_mul |-> 80, time_left |-> 0],
      [weapon_type |-> "SledgeHammer", cooldown_mul |-> 100, time_left |-> 0] }

\* the components tower_spawn gives a tower
TowerLoadout == [weapon_type |-> "Bow", cooldown_mul |-> 100, time_left |-> 200]

Loadouts == {l \in [Casters -> ActorLoadouts \cup {TowerLoadout}] :
                l["actor"] \in ActorLoadouts /\ l["tower"] = TowerLoadout}

\* promote_try_cast's loop from event k on: cooldowns tl, CastWeaponEvents sent out
RECURSIVE PromoteFrom(_, _, _, _)
PromoteFrom(k, events, tl, out) ==
    IF k > Len(events) THEN [time_left |-> tl, cast |-> out, unread |-> <<>>]
    ELSE LET caster == events[k] IN
         IF caster \notin Casters THEN PromoteFrom(k + 1, events, tl, out)
         ELSE IF OnCooldown(tl[caster]) THEN PromoteFrom(k + 1, events, tl, out)
         ELSE PromoteFrom(k + 1, events,
                  [tl EXCEPT ![caster] =
                      CooldownProduct(weapon_type[caster], cooldown_mul[caster])],
                  Append(out, CastWeaponEvent(caster, weapon_type[caster])))

CastersOf(events) == {events[k].caster_entity : k \in 1..Len(events)}

InitWeapon ==
    /\ \E l \in Loadouts :
          /\ time_left = [c \in Casters |-> l[c].time_left]
          /\ cooldown_mul = [c \in Casters |-> l[c].cooldown_mul]
          /\ weapon_type = [c \in Casters |-> l[c].weapon_type]
    /\ try_cast_events = <<>>
    /\ cast_events = <<>>
    /\ delta = 0
    /\ weapon_step = "Update"
    /\ ticks = 0
    /\ buys = 0
    /\ tried = {}
    /\ since_cast = [c \in Casters |-> -1]
    /\ cast_cooldown = [c \in Casters |-> 0]
    /\ prev_gap = [c \in Casters |-> -1]

\* buy_items, ShopItemEffect::MultiplyCooldown(amount) bought by a caster
MultiplyCooldown ==
    /\ weapon_step = "Update"
    /\ buys < MaxBuys
    /\ \E buyer \in Casters, amount \in Amounts :
          cooldown_mul' = [cooldown_mul EXCEPT ![buyer] = (cooldown_mul[buyer] * amount) \div 100]
    /\ buys' = buys + 1
    /\ UNCHANGED <<time_left, weapon_type, try_cast_events, cast_events, delta, weapon_step,
                   ticks, tried, since_cast, cast_cooldown, prev_gap, notWeapon>>

\* the Update schedule: apply_attack and tower_shoot send the tick's intents
SendTryCast ==
    /\ weapon_step = "Update"
    /\ ticks < MaxTicks
    /\ \E n \in 0..MaxTry : \E sent \in [1..n -> Casters \cup {Bare}] :
          try_cast_events' = try_cast_events \o sent
    /\ ticks' = ticks + 1
    /\ weapon_step' = "update_cooldown"
    /\ UNCHANGED <<time_left, cooldown_mul, weapon_type, cast_events, delta, buys, tried,
                   since_cast, cast_cooldown, prev_gap, notWeapon>>

UpdateCooldown ==
    /\ weapon_step = "update_cooldown"
    /\ \E d \in Deltas :
          /\ delta' = d
          /\ time_left' = [c \in Casters |-> time_left[c] - d]
          /\ since_cast' = [c \in Casters |->
                               IF since_cast[c] < 0 THEN since_cast[c] ELSE since_cast[c] + d]
    /\ weapon_step' = "promote_try_cast"
    /\ UNCHANGED <<cooldown_mul, weapon_type, try_cast_events, cast_events, ticks, buys,
                   tried, cast_cooldown, prev_gap, notWeapon>>

PromoteTryCast ==
    /\ weapon_step = "promote_try_cast"
    /\ LET r == PromoteFrom(1, try_cast_events, time_left, <<>>)
           cast == CastersOf(r.cast)
       IN /\ time_left' = r.time_left
          /\ cast_events' = cast_events \o r.cast
          /\ try_cast_events' = r.unread
          /\ tried' = {try_cast_events[k] : k \in 1..Len(try_cast_events)}
          /\ since_cast' = [c \in Casters |-> IF c \in cast THEN 0 ELSE since_cast[c]]
          /\ cast_cooldown' = [c \in Casters |->
                                  IF c \in cast THEN r.time_left[c] ELSE cast_cooldown[c]]
          /\ prev_gap' = [c \in Casters |-> IF c \in cast THEN since_cast[c] ELSE prev_gap[c]]
    /\ weapon_step' = "cast"
    /\ UNCHANGED <<cooldown_mul, weapon_type, delta, ticks, buys, notWeapon>>

\* cast_axes, cast_projectiles and cast_sledgehammer read the tick's CastWeaponEvents
CastWeapons ==
    /\ weapon_step = "cast"
    /\ cast_events' = <<>>
    /\ tried' = {}
    /\ delta' = 0
    /\ weapon_step' = "Update"
    /\ UNCHANGED <<time_left, cooldown_mul, weapon_type, try_cast_events, ticks, buys,
                   since_cast, cast_cooldown, prev_gap, notWeapon>>

NextWeapon ==
    \/ MultiplyCooldown
    \/ SendTryCast
    \/ UpdateCooldown
    \/ PromoteTryCast
    \/ CastWeapons

(***************************************************************************)
(* health.rs: Health, apply_health_events and despawn_0_system.  The       *)
(* amounts and maxima of the model are far from the limits of i32, where   *)
(* i32 addition is exact.                                                  *)
(***************************************************************************)
\* the entities with a Health component: a robot (with a DeathSound) and a tree trunk
HealthEntities == {"robot", "trunk"}

\* the child entities the spawners attach: the robot's pointer collider and the
\* trunk's projectile hit box
Children(e) ==
    CASE e = "robot" -> {"robot_collider"}
      [] e = "trunk" -> {"trunk_hitbox"}
      [] OTHER -> {}

DeathSound(e) == e = "robot"

\* the amounts of an ApplyHealthEvent: damage and healing
HealthAmounts == {-2, -1, 1}

\* the entities an ApplyHealthEvent names: alive, or despawned by now
HealthTargets == HealthEntities

ApplyHealthEvent == [amount : HealthAmounts, target_entity : HealthTargets]

Health_new(h) == [current |-> h, max |-> h]

is_dead(h) == h.current <= 0

Min(a, b) == IF a <= b THEN a ELSE b

add_assign_unclamped(h, rhs) == [h EXCEPT !.current = h.current + rhs]

\* impl AddAssign<i32> for Health
add_assign(h, rhs) == [h EXCEPT !.current = Min(h.current + rhs, h.max)]

\* the loop given up at the first event whose target is gone
RECURSIVE ApplyFromBreak(_, _, _)
ApplyFromBreak(k, events, hs) ==
    IF k > Len(events) THEN hs
    ELSE LET event == events[k] IN
         IF event.target_entity \notin DOMAIN hs THEN hs
         ELSE ApplyFromBreak(k + 1, events,
                  [hs EXCEPT ![event.target_entity] = add_assign(@, event.amount)])

\* apply_health_events' loop from event k on
RECURSIVE ApplyFrom(_, _, _)
ApplyFrom(k, events, hs) ==
    IF k > Len(events) THEN hs
    ELSE LET event == events[k] IN
         IF event.target_entity \notin DOMAIN hs THEN ApplyFrom(k + 1, events, hs)
         ELSE ApplyFrom(k + 1, events,
                  [hs EXCEPT ![event.target_entity] = add_assign(@, event.amount)])

despawn_only(ents, e) == ents \ {e}

\* despawn_recursive: the entity and its children
despawn_recursive(ents, e) == ents \ ({e} \cup Children(e))

RECURSIVE DespawnAll(_, _)
DespawnAll(ents, commands) ==
    IF commands = {} THEN ents
    ELSE LET e == CHOOSE x \in commands : TRUE
         IN DespawnAll(despawn_recursive(ents, e), commands \ {e})

InitHealth ==
    /\ \E h \in [HealthEntities -> 1..MaxHealth] :
          health = [e \in HealthEntities |-> Health_new(h[e])]
    /\ entities = HealthEntities \cup UNION {Children(e) : e \in HealthEntities}
    /\ despawn_commands = {}
    /\ sound_commands = {}
    /\ health_ran = {}
    /\ health_events = <<>>
    /\ health_before = health
    /\ despawns = [e \in HealthEntities |-> 0]
    /\ death_sounds = [e \in HealthEntities |-> 0]
    /\ overkilled = {}

ApplyHealthEvents ==
    /\ "apply_health_events" \notin health_ran
    /\ \E n \in 0..MaxEvents : \E events \in [1..n -> ApplyHealthEvent] :
          /\ health' = ApplyFrom(1, events, health)
          /\ health_events' = events
          /\ overkilled' = overkilled \cup
                {e \in DOMAIN health :
                    /\ is_dead(health[e])
                    /\ \E k \in 1..n : events[k].target_entity = e /\ events[k].amount < 0}
    /\ health_before' = health
    /\ health_ran' = health_ran \cup {"apply_health_events"}
    /\ UNCHANGED <<entities, despawn_commands, sound_commands, despawns, death_sounds,
                   notHealth>>

Despawn0System ==
    /\ "despawn_0_system" \notin health_ran
    /\ LET dead == {e \in DOMAIN health : is_dead(health[e])}
       IN /\ despawn_commands' = despawn_commands \cup dead
          /\ sound_commands' = sound_commands \cup {e \in dead : DeathSound(e)}
          /\ despawns' = [e \in HealthEntities |->
                             IF e \in dead THEN despawns[e] + 1 ELSE despawns[e]]
    /\ health_ran' = health_ran \cup {"despawn_0_system"}
    /\ UNCHANGED <<health, entities, health_events, health_before, death_sounds, overkilled,
                   notHealth>>

HealthSystems == {"apply_health_events", "despawn_0_system"}

\* the end of Update: the queued commands are applied
ApplyHealthCommands ==
    /\ health_ran = HealthSystems
    /\ entities' = DespawnAll(entities, despawn_commands)
    /\ health' = [e \in DOMAIN health \cap entities' |-> health[e]]
    /\ death_sounds' = [e \in HealthEntities |->
                           IF e \in sound_commands THEN death_sounds[e] + 1
                           ELSE death_sounds[e]]
    /\ despawn_commands' = {}
    /\ sound_commands' = {}
    /\ health_ran' = {}
    /\ health_events' = <<>>
    /\ health_before' = health'
    /\ UNCHANGED <<despawns, overkilled, notHealth>>

NextHealth ==
    \/ ApplyHealthEvents
    \/ Despawn0System
    \/ ApplyHealthCommands

(***************************************************************************)
(* weapon.rs: the melee swings of cast_axes and cast_sledgehammer, and     *)
(* cast_projectiles beside them.  Positions are points of a plane grid and *)
(* the cast direction is a unit vector of it, so that the sign of the dot  *)
(* product and its comparison with 0.3 are computed exactly.  The swing    *)
(* sounds and the gizmos are left out.                                     *)
(***************************************************************************)
\* the caster of the swings: a robot, the only body spawned with an Axe
MeleeCaster == "robot"

\* the entities the transforms query (GlobalTransform, With<Health>) finds
MeleeBodies == {"robot", "monkey", "trunk", "tree_spawner"}

\* the colliders a shape query can report: the bodies, and a tower's collider
\* child, which has no Health
MeleeColliders == MeleeBodies \cup {"tower_collider"}

\* where the other bodies stand, seen from the caster at the origin: ahead,
\* behind, just inside the cone (dot 0.316) and just outside (dot 0.243)
Positions == {<<1, 0>>, <<-1, 0>>, <<1, 3>>, <<1, 4>>}

Origin == <<0, 0>>

\* event.dir, normalized by promote_try_cast
CastDir == <<1, 0>>

AXE_DAMAGE == 1

SLEDGEHAMMER_DAMAGE == 6

MAX_HIT == 2

\* axe_cone_dot = 0.3, in hundredths
axe_cone_dot == 30

Sub(a, b) == <<a[1] - b[1], a[2] - b[2]>>

Dot(a, b) == a[1] * b[1] + a[2] * b[2]

\* the cone test with to_target pointing from the caster to the target
is_outside_of_cone_reversed(caster_dir, caster_pos, hit_pos) ==
    LET to_target == Sub(hit_pos, caster_pos)
        len2 == Dot(to_target, to_target)
        p == -Dot(caster_dir, to_target)
    IN  IF len2 = 0 THEN FALSE
        ELSE p <= 0 \/ 100 * 100 * p * p < axe_cone_dot * axe_cone_dot * len2

\* to_target = caster - hit; dot = -caster_dir.dot(to_target.normalize());
\* dot < axe_cone_dot.  With p = dot * |to_target|: dot < 0.3 iff p <= 0 or
\* p^2 < 0.09 * |to_target|^2.  normalize() of the zero vector is NaN, and
\* NaN < 0.3 is false.
is_outside_of_cone(caster_dir, caster_pos, hit_pos) ==
    LET to_target == Sub(caster_pos, hit_pos)
        len2 == Dot(to_target, to_target)
        p == -Dot(caster_dir, to_target)
    IN  IF len2 = 0 THEN FALSE
        ELSE p <= 0 \/ 100 * 100 * p * p < axe_cone_dot * axe_cone_dot * len2

keep_searching_always(hits) == TRUE

\* the closure's result after a hit: hits <= MAX_HIT - 1
keep_searching(hits) == hits <= MAX_HIT - 1

MeleeHealthEvent(amount, target, caster) ==
    [amount |-> amount, target_entity |-> target, caster_entity |-> caster]

MeleeCastEvent(caster, type, dir) ==
    [caster_entity |-> caster, weapon_type |-> type, dir |-> dir]

SpawnProjectileEvent(caster, additional_damage) ==
    [caster_entity |-> caster, additional_damage |-> additional_damage]

\* intersections_with_shape calling the closure on candidate k and on, until
\* the closure returns false
RECURSIVE SwingFrom(_, _, _, _, _, _)
SwingFrom(k, reported, event, damage, hits, sent) ==
    IF k > Len(reported)
    THEN [sent |-> sent, examined |-> Len(reported), hits |-> hits]
    ELSE LET hit_entity == reported[k] IN
         IF hit_entity \notin MeleeBodies
         THEN SwingFrom(k + 1, reported, event, damage, hits, sent)
         ELSE IF is_outside_of_cone(event.dir, melee_pos[event.caster_entity],
                                    melee_pos[hit_entity])
         THEN SwingFrom(k + 1, reported, event, damage, hits, sent)
         ELSE IF hit_entity = event.caster_entity
         THEN SwingFrom(k + 1, reported, event, damage, hits, sent)
         ELSE LET out == Append(sent, MeleeHealthEvent(-damage, hit_entity,
                                                       event.caster_entity))
              IN  IF keep_searching(hits + 1)
                  THEN SwingFrom(k + 1, reported, event, damage, hits + 1, out)
                  ELSE [sent |-> out, examined |-> k, hits |-> hits + 1]

\* the for loop of cast_axes or cast_sledgehammer from event k on: the events
\* of another weapon type are skipped
RECURSIVE MeleeFrom(_, _, _, _, _, _)
MeleeFrom(k, events, type, base, sent, swings) ==
    IF k > Len(events) THEN [sent |-> sent, swings |-> swings]
    ELSE LET event == events[k] IN
         IF event.weapon_type # type
         THEN MeleeFrom(k + 1, events, type, base, sent, swings)
         ELSE LET r == SwingFrom(1, melee_reported, event,
                                 damage_add[event.caster_entity] + base, 0, <<>>)
              IN  MeleeFrom(k + 1, events, type, base, sent \o r.sent,
                      Append(swings, [event |-> event, reported |-> melee_reported,
                                      sent |-> r.sent, examined |-> r.examined,
                                      hits |-> r.hits]))

\* the for loop of cast_projectiles from event k on
RECURSIVE ProjectilesFrom(_, _, _)
ProjectilesFrom(k, events, sent) ==
    IF k > Len(events) THEN sent
    ELSE LET event == events[k] IN
         IF event.weapon_type # "Bow" THEN ProjectilesFrom(k + 1, events, sent)
         ELSE ProjectilesFrom(k + 1, events,
                  Append(sent, SpawnProjectileEvent(event.caster_entity,
                                                    damage_add[event.caster_entity])))

InjectiveSeqs(S, n) ==
    UNION {{q \in [1..m -> S] : \A i, j \in 1..m : q[i] = q[j] => i = j} : m \in 0..n}

CastSystems == {"cast_axes", "cast_projectiles", "cast_sledgehammer"}

\* the damage_add spawn_players gives a fast robot and a robot
InitMelee ==
    /\ melee_pos = [b \in MeleeBodies |-> IF b = MeleeCaster THEN Origin ELSE <<1, 0>>]
    /\ damage_add \in [{MeleeCaster} -> {0, 1}]
    /\ melee_cast_events = <<>>
    /\ melee_reported = <<>>
    /\ melee_ran = {}
    /\ melee_health_events = <<>>
    /\ spawn_projectile_event = <<>>
    /\ melee_swings = <<>>

\* the tick up to the cast systems: the bodies have moved and promote_try_cast
\* has sent the tick's CastWeaponEvents.  The position of a body the query does
\* not report is not read.
MeleeUpdate ==
    /\ melee_ran = {}
    /\ \E reported \in InjectiveSeqs(MeleeColliders, MaxReported) :
       \E pos \in [MeleeBodies \ {MeleeCaster} -> Positions] :
          /\ \A b \in DOMAIN pos :
                (\A k \in 1..Len(reported) : reported[k] # b) => pos[b] = <<1, 0>>
          /\ melee_reported' = reported
          /\ melee_pos' = [b \in MeleeBodies |-> IF b = MeleeCaster THEN Origin ELSE pos[b]]
    /\ \E n \in 0..MaxCasts : \E types \in [1..n -> WeaponType] :
          melee_cast_events' = [k \in 1..n |-> MeleeCastEvent(MeleeCaster, types[k], CastDir)]
    /\ melee_ran' = {"promote_try_cast"}
    /\ UNCHANGED <<damage_add, melee_health_events, spawn_projectile_event, melee_swings,
                   notMelee>>

CastAxes ==
    /\ "promote_try_cast" \in melee_ran
    /\ "cast_axes" \notin melee_ran
    /\ LET r == MeleeFrom(1, melee_cast_events, "Axe", AXE_DAMAGE, <<>>, <<>>)
       IN  /\ melee_health_events' = melee_health_events \o r.sent
           /\ melee_swings' = melee_swings \o r.swings
    /\ melee_ran' = melee_ran \cup {"cast_axes"}
    /\ UNCHANGED <<melee_pos, damage_add, melee_cast_events, melee_reported,
                   spawn_projectile_event, notMelee>>

CastSledgehammer ==
    /\ "promote_try_cast" \in melee_ran
    /\ "cast_sledgehammer" \notin melee_ran
    /\ LET r == MeleeFrom(1, melee_cast_events, "SledgeHammer", SLEDGEHAMMER_DAMAGE,
                          <<>>, <<>>)
       IN  /\ melee_health_events' = melee_health_events \o r.sent
           /\ melee_swings' = melee_swings \o r.swings
    /\ melee_ran' = melee_ran \cup {"cast_sledgehammer"}
    /\ UNCHANGED <<melee_pos, damage_add, melee_cast_events, melee_reported,
                   spawn_projectile_event, notMelee>>

CastProjectiles ==
    /\ "promote_try_cast" \in melee_ran
    /\ "cast_projectiles" \notin melee_ran
    /\ spawn_projectile_event' = ProjectilesFrom(1, melee_cast_events, spawn_projectile_event)
    /\ melee_ran' = melee_ran \cup {"cast_projectiles"}
    /\ UNCHANGED <<melee_pos, damage_add, melee_cast_events, melee_reported,
                   melee_health_events, melee_swings, notMelee>>

\* the next tick's Update: apply_health_events and spawn_projectile read the
\* events of this tick
ReadMeleeEvents ==
    /\ melee_ran = CastSystems \cup {"promote_try_cast"}
    /\ melee_pos' = [b \in MeleeBodies |-> IF b = MeleeCaster THEN Origin ELSE <<1, 0>>]
    /\ melee_cast_events' = <<>>
    /\ melee_reported' = <<>>
    /\ melee_ran' = {}
    /\ melee_health_events' = <<>>
    /\ spawn_projectile_event' = <<>>
    /\ melee_swings' = <<>>
    /\ UNCHANGED <<damage_add, notMelee>>

NextMelee ==
    \/ MeleeUpdate
    \/ CastAxes
    \/ CastProjectiles
    \/ CastSledgehammer
    \/ ReadMeleeEvents

(***************************************************************************)
(* projectile.rs: spawn_projectile and update.  The flight of a projectile *)
(* (projectile_aim, gravity, the translation) decides only which colliders *)
(* its ray crosses in a tick, which the model takes from the physics       *)
(* engine as it comes.                                                     *)
(***************************************************************************)
\* the entities a projectile's caster_entity names: the player and a tower
ProjectileCasters == {"monkey", "tower"}

\* the colliders a ray can cross: two bodies with Health, a trunk's hit box
\* (HealthRoot naming the trunk) and a tower's collider (neither)
ProjectileColliders == {"monkey", "robot", "trunk_hitbox", "tower_collider"}

NoEntity == "none"

\* the match on (health, health_root) of update's closure
HealthEntityOf(hit_entity) ==
    CASE hit_entity \in {"monkey", "robot"} -> hit_entity
      [] hit_entity = "trunk_hitbox" -> "trunk"
      [] OTHER -> NoEntity

\* the files the loader accepts: max_hits is any i32
ProjectileAssets == [damage : {1}, max_hits : -1..MaxBudget]

\* cast_no is history: which SpawnProjectileEvent the projectile came from
Projectile(caster, additional_damage, cast_no) ==
    [hits |-> 0, caster_entity |-> caster, additional_damage |-> additional_damage,
     cast_no |-> cast_no]

\* the amount computed from the caster's damage_add of the tick of the hit
ProjectileAmountNow(p) == -projectile_asset.damage - caster_damage_add[p.caster_entity]

\* update: amount of the ApplyHealthEvent
ProjectileAmount(p) == -projectile_asset.damage - p.additional_damage

\* intersections_with_ray calling update's closure on hit k and on, until the
\* closure returns false
RECURSIVE RayFrom(_, _, _, _, _)
RayFrom(k, crossed, p, hits, sent) ==
    IF k > Len(crossed) THEN [hits |-> hits, sent |-> sent, despawn |-> FALSE]
    ELSE LET health_entity == HealthEntityOf(crossed[k]) IN
         IF health_entity = NoEntity THEN RayFrom(k + 1, crossed, p, hits, sent)
         ELSE IF health_entity = p.caster_entity THEN RayFrom(k + 1, crossed, p, hits, sent)
         ELSE LET out == Append(sent,
                             MeleeHealthEvent(ProjectileAmount(p), health_entity,
                                              p.caster_entity))
              IN  IF hits + 1 >= projectile_asset.max_hits
                  THEN [hits |-> hits + 1, sent |-> out, despawn |-> TRUE]
                  ELSE RayFrom(k + 1, crossed, p, hits + 1, out)

\* the events of the projectiles ids, in the order of the query
RECURSIVE RaysSent(_, _)
RaysSent(rays, ids) ==
    IF ids = {} THEN <<>>
    ELSE LET id == CHOOSE i \in ids : \A j \in ids : i <= j
         IN  rays[id].sent \o RaysSent(rays, ids \ {id})

ProjectileSystems == {"spawn_projectile", "update", "buy_items"}

NoRays == [id \in {} |-> [before |-> Projectile("monkey", 0, 1), crossed |-> <<>>,
                          sent |-> <<>>]]

InitProjectile ==
    /\ projectile_asset \in ProjectileAssets
    /\ asset_ready \in BOOLEAN
    /\ projectile = [id \in {} |-> Projectile("monkey", 0, 1)]
    /\ spawned = 0
    /\ projectile_spawn_commands = <<>>
    /\ projectile_despawn_commands = {}
    /\ projectile_ran = {}
    /\ projectile_health_events = <<>>
    /\ emitted = [id \in 1..MaxProjectiles |-> 0]
    /\ caster_damage_add = [c \in ProjectileCasters |-> 0]
    /\ projectile_events = <<>>
    /\ cast_log = <<>>
    /\ ray_log = NoRays

\* the asset server finishes loading the projectile file
LoadProjectileAsset ==
    /\ ~asset_ready
    /\ asset_ready' = TRUE
    /\ UNCHANGED <<projectile_asset, projectile, spawned, projectile_spawn_commands,
                   projectile_despawn_commands, projectile_ran, projectile_health_events,
                   emitted, caster_damage_add, projectile_events, cast_log, ray_log,
                   notProjectile>>

\* spawn_projectile reading the SpawnProjectileEvents cast_projectiles sent
SpawnProjectile ==
    /\ projectile_ran \subseteq ProjectileSystems \ {"spawn_projectile"}
    /\ projectile_spawn_commands' =
          IF asset_ready
          THEN [k \in 1..Len(projectile_events) |->
                   Projectile(projectile_events[k].event.caster_entity,
                              projectile_events[k].event.additional_damage,
                              projectile_events[k].cast_no)]
          ELSE <<>>
    /\ projectile_events' = <<>>
    /\ projectile_ran' = projectile_ran \cup {"spawn_projectile"}
    /\ UNCHANGED <<projectile_asset, asset_ready, projectile, spawned,
                   projectile_despawn_commands, projectile_health_events, emitted,
                   caster_damage_add, cast_log, ray_log, notProjectile>>

\* buy_items, ShopItemEffect::IncreaseDamage bought by the player or not
BuyIncreaseDamage ==
    /\ projectile_ran \subseteq ProjectileSystems \ {"buy_items"}
    /\ \E amount \in 0..(MaxAdd - caster_damage_add["monkey"]) :
          caster_damage_add' = [caster_damage_add EXCEPT !["monkey"] = @ + amount]
    /\ projectile_ran' = projectile_ran \cup {"buy_items"}
    /\ UNCHANGED <<projectile_asset, asset_ready, projectile, spawned,
                   projectile_spawn_commands, projectile_despawn_commands,
                   projectile_health_events, emitted, projectile_events, cast_log, ray_log,
                   notProjectile>>

\* update: every projectile casts its ray over the way it flew in this tick
ProjectileUpdate ==
    /\ projectile_ran \subseteq ProjectileSystems \ {"update"}
    /\ IF ~asset_ready
       THEN UNCHANGED <<projectile, projectile_despawn_commands, projectile_health_events,
                        emitted, ray_log>>
       ELSE \E crossed \in [DOMAIN projectile ->
                               InjectiveSeqs(ProjectileColliders, MaxRay)] :
               LET rays == [id \in DOMAIN projectile |->
                               RayFrom(1, crossed[id], projectile[id],
                                       projectile[id].hits, <<>>)]
               IN  /\ projectile' = [id \in DOMAIN projectile |->
                                        [projectile[id] EXCEPT !.hits = rays[id].hits]]
                   /\ projectile_despawn_commands' =
                         projectile_despawn_commands \cup
                         {id \in DOMAIN projectile : rays[id].despawn}
                   /\ projectile_health_events' = RaysSent(rays, DOMAIN projectile)
                   /\ ray_log' = [id \in DOMAIN projectile |->
                                     [before |-> projectile[id], crossed |-> crossed[id],
                                      sent |-> rays[id].sent]]
                   /\ emitted' = [id \in 1..MaxProjectiles |->
                                     IF id \in DOMAIN projectile
                                     THEN emitted[id] + Len(rays[id].sent)
                                     ELSE emitted[id]]
    /\ projectile_ran' = projectile_ran \cup {"update"}
    /\ UNCHANGED <<projectile_asset, asset_ready, spawned, projectile_spawn_commands,
                   caster_damage_add, projectile_events, cast_log, notProjectile>>

\* the end of Update: the queued spawns and despawns are applied
ApplyProjectileCommands ==
    /\ projectile_ran = ProjectileSystems
    /\ LET n == Len(projectile_spawn_commands)
           kept == DOMAIN projectile \ projectile_despawn_commands
       IN  /\ projectile' = [id \in kept \cup (spawned + 1)..(spawned + n) |->
                                IF id \in kept THEN projectile[id]
                                ELSE projectile_spawn_commands[id - spawned]]
           /\ spawned' = spawned + n
    /\ projectile_spawn_commands' = <<>>
    /\ projectile_despawn_commands' = {}
    /\ projectile_ran' = {"apply_deferred"}
    /\ projectile_health_events' = <<>>
    /\ ray_log' = NoRays
    /\ UNCHANGED <<projectile_asset, asset_ready, emitted, caster_damage_add,
                   projectile_events, cast_log, notProjectile>>

\* PostUpdate: cast_projectiles reading the CastWeaponEvents of the tick
CastBow ==
    /\ projectile_ran = {"apply_deferred"}
    /\ \E n \in 0..(MaxProjectiles - Len(cast_log)) :
       \E casters \in [1..n -> ProjectileCasters] :
          /\ projectile_events' = projectile_events \o
                [k \in 1..n |->
                    [event |-> SpawnProjectileEvent(casters[k], caster_damage_add[casters[k]]),
                     cast_no |-> Len(cast_log) + k]]
          /\ cast_log' = cast_log \o [k \in 1..n |-> caster_damage_add[casters[k]]]
    /\ projectile_ran' = {}
    /\ UNCHANGED <<projectile_asset, asset_ready, projectile, spawned,
                   projectile_spawn_commands, projectile_despawn_commands,
                   projectile_health_events, emitted, caster_damage_add, ray_log,
                   notProjectile>>

NextProjectile ==
    \/ LoadProjectileAsset
    \/ SpawnProjectile
    \/ BuyIncreaseDamage
    \/ CastBow
    \/ ProjectileUpdate
    \/ ApplyProjectileCommands

(***************************************************************************)
(* shop.rs: buying.  The buyer is the entity with PlayerControllerTag; its *)
(* Inventory is items.  perform_pickup, handle_shop_item_click and         *)
(* buy_items are systems of Update with no order between them.             *)
(***************************************************************************)
Effect(k, n) == [k |-> k, n |-> n]

\* the effects of the model: amounts of 1, and a cooldown multiplier of 0.9
ShopItemEffect ==
    {Effect("PlantTree", 0), Effect("IncreaseDamage", 1), Effect("MultiplyCooldown", 90),
     Effect("Heal", 1), Effect("BuildTower", 0), Effect("BuildTreeSpawner", 0)}

EffectLists ==
    {<<e>> : e \in ShopItemEffect} \cup {<<Effect("IncreaseDamage", 1), Effect("Heal", 1)>>}

\* the costs of the model: one to MaxBatch pairs, each of at least one item
ShopCosts == UNION {[1..n -> Item \X (1..MaxCount)] : n \in 1..MaxBatch}

ShopItemData == [cost : ShopCosts, effects : EffectLists, permanent : BOOLEAN]

OfferEntity == "offer"

\* the closure apply_effect of buy_items, for a buyer that exists
apply_effect(effect, stats, sent) ==
    IF effect.k = "IncreaseDamage"
    THEN [stats |-> [stats EXCEPT !.damage_add = @ + effect.n], sent |-> sent]
    ELSE IF effect.k = "MultiplyCooldown"
    THEN [stats |-> [stats EXCEPT !.cooldown_mul = (@ * effect.n) \div 100], sent |-> sent]
    ELSE [stats |-> stats, sent |-> Append(sent, effect)]

\* shop_item.0.effects.iter().for_each(|e| apply_effect(e, event.buyer))
RECURSIVE ApplyEffects(_, _, _, _)
ApplyEffects(effects, k, stats, sent) ==
    IF k > Len(effects)
    THEN [stats |-> stats, sent |-> sent]
    ELSE LET r == apply_effect(effects[k], stats, sent)
         IN  ApplyEffects(effects, k + 1, r.stats, r.sent)

BuyState(inv, stats, despawn, sent, log, fault) ==
    [items |-> inv, stats |-> stats, despawn |-> despawn, sent |-> sent, log |-> log,
     fault |-> fault]

BuyLog(item, found, has_inv, ret, before, after, stats, stats_after, sent, gone) ==
    [item |-> item, found |-> found, has_inventory |-> has_inv, ret |-> ret,
     items_before |-> before, items_after |-> after, stats_before |-> stats,
     stats_after |-> stats_after, sent |-> sent, despawned |-> gone]

\* the body of the for loop of buy_items, for one BuyEvent
BuyOne(item, offers, alive, checks, b) ==
    IF item \notin DOMAIN offers \/ ~alive
    THEN [b EXCEPT !.log = Append(@, BuyLog(item, item \in DOMAIN offers, alive, FALSE,
                                            b.items, b.items, b.stats, b.stats, <<>>,
                                            FALSE))]
    ELSE LET data == offers[item]
             r == spend_items(b.items, data.cost, checks)
             e == ApplyEffects(data.effects, 1, b.stats, <<>>)
         IN  IF r.ret
             THEN BuyState(r.items, e.stats,
                           IF data.permanent THEN b.despawn ELSE b.despawn \cup {item},
                           b.sent \o e.sent,
                           Append(b.log, BuyLog(item, TRUE, TRUE, TRUE, b.items, r.items,
                                                b.stats, e.stats, e.sent,
                                                ~data.permanent)),
                           "none")
             ELSE BuyState(r.items, b.stats, b.despawn, b.sent,
                           Append(b.log, BuyLog(item, TRUE, TRUE, FALSE, b.items, r.items,
                                                b.stats, b.stats, <<>>, FALSE)),
                           r.fault)

\* for event in buy_event.read(); a panic ends the loop
RECURSIVE BuyFrom(_, _, _, _, _, _)
BuyFrom(k, events, offers, alive, checks, b) ==
    IF k > Len(events) \/ b.fault # "none"
    THEN b
    ELSE BuyFrom(k + 1, events, offers, alive, checks,
                 BuyOne(events[k], offers, alive, checks, b))

ShopSystems == {"perform_pickup", "handle_shop_item_click", "buy_items"}

\* the state after spawn_shop_items has spawned the offer and spawn_players the
\* player (WeaponStats::default() for the Monkey)
InitShop ==
    /\ shop_item \in [{OfferEntity} -> ShopItemData]
    /\ just_clicked = {}
    /\ buy_event = <<>>
    /\ buyer_alive = TRUE
    /\ shop_stats = [damage_add |-> 0, cooldown_mul |-> 100]
    /\ shop_despawn_commands = {}
    /\ shop_sent = <<>>
    /\ shop_ran = {}
    /\ clicks = 0
    /\ shop_log = <<>>

ShopRunning == inv_fault = "none"

\* perform_pickup: an OnPickedUpEvent for the buyer, or none
PerformPickup ==
    /\ ShopRunning
    /\ "perform_pickup" \notin shop_ran
    /\ shop_ran' = shop_ran \cup {"perform_pickup"}
    /\ \/ UNCHANGED <<items, inv_fault>>
       \/ \E item \in Item :
             /\ buyer_alive
             /\ clicks < MaxClicks
             /\ get_item_count(items, item) + 1 <= MaxStock
             /\ LET r == add_item(items, item, 1, overflow_checks)
                IN  items' = r.items /\ inv_fault' = r.fault
    /\ UNCHANGED <<shop_item, just_clicked, buy_event, buyer_alive, shop_stats,
                   shop_despawn_commands, shop_sent, clicks, shop_log, overflow_checks,
                   notShop>>

\* handle_shop_item_click: one BuyEvent for each offer that carries JustClicked
HandleShopItemClick ==
    /\ ShopRunning
    /\ "handle_shop_item_click" \notin shop_ran
    /\ shop_ran' = shop_ran \cup {"handle_shop_item_click"}
    /\ IF buyer_alive /\ OfferEntity \in just_clicked \cap DOMAIN shop_item
       THEN buy_event' = Append(buy_event, OfferEntity) /\ clicks' = clicks + 1
       ELSE UNCHANGED <<buy_event, clicks>>
    /\ UNCHANGED <<shop_item, just_clicked, buyer_alive, shop_stats,
                   shop_despawn_commands, shop_sent, shop_log, items, inv_fault,
                   overflow_checks, notShop>>

\* buy_items
BuyItems ==
    /\ ShopRunning
    /\ "buy_items" \notin shop_ran
    /\ shop_ran' = shop_ran \cup {"buy_items"}
    /\ LET b == BuyFrom(1, buy_event, shop_item, buyer_alive, overflow_checks,
                        BuyState(items, shop_stats, shop_despawn_commands, shop_sent,
                                 <<>>, "none"))
       IN  /\ items' = b.items
           /\ inv_fault' = b.fault
           /\ shop_stats' = b.stats
           /\ shop_despawn_commands' = b.despawn
           /\ shop_sent' = b.sent
           /\ shop_log' = b.log
    /\ buy_event' = <<>>
    /\ UNCHANGED <<shop_item, just_clicked, buyer_alive, clicks, overflow_checks, notShop>>

\* the end of the tick: the commands of Update are applied, the player may
\* die, and in PostUpdate remove_just_clicked removes every JustClicked and
\* update_button_color marks a button that went from Pressed to Hovered
ShopPostUpdate ==
    /\ ShopRunning
    /\ shop_ran = ShopSystems
    /\ shop_ran' = {}
    /\ shop_item' = [e \in DOMAIN shop_item \ shop_despawn_commands |-> shop_item[e]]
    /\ shop_despawn_commands' = {}
    /\ shop_sent' = <<>>
    /\ shop_log' = <<>>
    /\ buyer_alive' \in {buyer_alive, FALSE}
    /\ items' = IF buyer_alive' THEN items ELSE EmptyMap
    /\ just_clicked' \in
          {c \in SUBSET (DOMAIN shop_item' \ just_clicked) :
              c # {} => clicks < MaxClicks}
    /\ UNCHANGED <<buy_event, shop_stats, clicks, inv_fault, overflow_checks, notShop>>

NextShop == PerformPickup \/ HandleShopItemClick \/ BuyItems \/ ShopPostUpdate

(***************************************************************************)
(* player.rs: intents.  In Update, movement_input, attack_input and        *)
(* robot_ai run in any order, then apply_movement and apply_attack in any  *)
(* order.  The actors are the player's monkey and one robot.  Vectors are  *)
(* points of a grid; what robot_ai reads of the world (distances, the      *)
(* stuck check, which entities exist) is chosen anew in every tick.        *)
(***************************************************************************)
Actors == {"monkey", "robot"}

Vec3 == {<<0, 0>>, <<1, 0>>, <<0, 1>>}

ZERO == <<0, 0>>

None == [some |-> FALSE, dir |-> ZERO, target |-> "none"]

Some(dir, target) == [some |-> TRUE, dir |-> dir, target |-> target]

\* PlayerInput::default()
DefaultInput == [movement |-> ZERO, attack |-> None]

\* the closure attack_target of robot_ai
attack_target(input, diff, close) ==
    IF close THEN [input EXCEPT !.attack = Some(diff, "none")]
             ELSE [input EXCEPT !.movement = diff]

\* the entities a robot can target
RobotTargets == {"monkey", "tree_a", "tree_b", "spawner"}

TargetKind == [monkey |-> "monkey", tree_a |-> "tree", tree_b |-> "tree", spawner |-> "spawner"]

\* squared distances from the robot: 0 stands for an entity that does not exist
DistSq == {0, 1, 9, 36}

\* the worlds of the model: the monkey and one tree at any distance, the other
\* tree and the spawner absent or at the middle distance
Worlds ==
    {w \in [RobotTargets -> DistSq] : w["tree_b"] \in {0, 9} /\ w["spawner"] \in {0, 9}}

ATTACK_DISTANCE_SQ == 4

MONKEY_RANGE_SQ == 25

\* the target is kept whatever has become of it
has_health_unchecked(world, e) == e # "none"

\* entity_query.get(target).is_ok(), entity_query: Query<Entity, With<Health>>
has_health(world, e) == e # "none" /\ world[e] # 0

\* max_by in the place of min_by
Farthest(world, kind) ==
    LET of_kind == {e \in RobotTargets : TargetKind[e] = kind /\ world[e] # 0}
    IN  IF of_kind = {} THEN {"none"}
        ELSE {e \in of_kind : \A o \in of_kind : world[e] >= world[o]}

\* iter().map(dist_map).min_by(float_cmp) over the entities of a kind: the
\* entities it can return, the query's order deciding between equal distances
Closest(world, kind) ==
    LET of_kind == {e \in RobotTargets : TargetKind[e] = kind /\ world[e] # 0}
    IN  IF of_kind = {} THEN {"none"}
        ELSE {e \in of_kind : \A o \in of_kind : world[e] <= world[o]}

\* the body of the for loop of robot_ai.  stuck: the position check is due and
\* the robot has not moved; diff: the direction to the target; coin: the random
\* draw is below 0.1; closest_tree, closest_spawner: what min_by returned
robot_ai(input, target, stuck, diff, world, closest_tree, closest_spawner, coin) ==
    LET cleared == [input EXCEPT !.attack = None]
        checked == IF stuck /\ cleared.movement # ZERO
                   THEN [cleared EXCEPT !.attack = Some(cleared.movement, "none")]
                   ELSE cleared
        is_monkey == target = "monkey" /\ world["monkey"] # 0
        near == world["monkey"] # 0 /\ world["monkey"] < MONKEY_RANGE_SQ
        aimed == is_monkey \/ (~near /\ target # "none" /\ world[target] # 0)
        close == world[target] < ATTACK_DISTANCE_SQ
        after == IF aimed THEN attack_target(checked, diff, close) ELSE checked
        chosen == IF ~is_monkey /\ near THEN "monkey" ELSE target
        picked == IF coin
                  THEN IF closest_spawner # "none" THEN closest_spawner ELSE closest_tree
                  ELSE IF closest_tree # "none" THEN closest_tree ELSE closest_spawner
    IN  [input |-> after,
         target |-> IF has_health(world, chosen) THEN chosen ELSE picked,
         moved |-> aimed /\ ~close,
         aimed_at |-> IF aimed THEN target ELSE "none"]

NotSeen == [ran |-> FALSE, world |-> [e \in RobotTargets |-> 0], before |-> "none",
            aimed_at |-> "none", coin |-> FALSE]

GatherSystems == {"movement_input", "attack_input", "robot_ai"}

ApplySystems == {"apply_movement", "apply_attack"}

NotProduced == [a \in Actors |-> [movement |-> FALSE, attack |-> FALSE]]

NotApplied == [a \in Actors |-> [movement |-> ZERO, attack |-> None]]

\* spawn_players: PlayerInput::default(), RobotController with no target
InitIntent ==
    /\ player_input = [a \in Actors |-> DefaultInput]
    /\ robot_target = "none"
    /\ intent_ran = {}
    /\ produced = NotProduced
    /\ applied = NotApplied
    /\ robot_saw = NotSeen

\* movement_input: the keys held give the direction
MovementInput ==
    /\ "movement_input" \notin intent_ran
    /\ intent_ran' = intent_ran \cup {"movement_input"}
    /\ \E dir \in Vec3 : player_input' = [player_input EXCEPT !["monkey"].movement = dir]
    /\ produced' = [produced EXCEPT !["monkey"].movement = TRUE]
    /\ UNCHANGED <<robot_target, applied, robot_saw, notIntent>>

\* attack_input: the attack is cleared, and set when the left button is held
\* and the pointer is on something other than the player
AttackInput ==
    /\ "attack_input" \notin intent_ran
    /\ intent_ran' = intent_ran \cup {"attack_input"}
    /\ \E attack \in {None} \cup {Some(dir, "robot") : dir \in Vec3 \ {ZERO}} :
          player_input' = [player_input EXCEPT !["monkey"].attack = attack]
    /\ produced' = [produced EXCEPT !["monkey"].attack = TRUE]
    /\ UNCHANGED <<robot_target, applied, robot_saw, notIntent>>

\* robot_ai
RobotAi ==
    /\ "robot_ai" \notin intent_ran
    /\ intent_ran' = intent_ran \cup {"robot_ai"}
    /\ \E stuck, coin \in BOOLEAN, diff \in Vec3 \ {ZERO}, world \in Worlds :
       \E closest_tree \in Closest(world, "tree"), closest_spawner \in Closest(world, "spawner") :
          LET r == robot_ai(player_input["robot"], robot_target, stuck, diff, world,
                            closest_tree, closest_spawner, coin)
          IN  /\ player_input' = [player_input EXCEPT !["robot"] = r.input]
              /\ robot_target' = r.target
              /\ produced' = [produced EXCEPT !["robot"] =
                                 [movement |-> r.moved, attack |-> TRUE]]
              /\ robot_saw' = [ran |-> TRUE, world |-> world, before |-> robot_target,
                               aimed_at |-> r.aimed_at, coin |-> coin]
    /\ UNCHANGED <<applied, notIntent>>

\* apply_movement: every actor's velocity follows its movement intent
ApplyMovement ==
    /\ GatherSystems \subseteq intent_ran
    /\ "apply_movement" \notin intent_ran
    /\ intent_ran' = intent_ran \cup {"apply_movement"}
    /\ applied' = [a \in Actors |-> [applied[a] EXCEPT !.movement = player_input[a].movement]]
    /\ UNCHANGED <<player_input, robot_target, produced, robot_saw, notIntent>>

\* apply_attack: a TryCastWeaponEvent for every actor whose attack is Some
ApplyAttack ==
    /\ GatherSystems \subseteq intent_ran
    /\ "apply_attack" \notin intent_ran
    /\ intent_ran' = intent_ran \cup {"apply_attack"}
    /\ applied' = [a \in Actors |-> [applied[a] EXCEPT !.attack = player_input[a].attack]]
    /\ UNCHANGED <<player_input, robot_target, produced, robot_saw, notIntent>>

\* the end of Update
IntentEndOfTick ==
    /\ intent_ran = GatherSystems \cup ApplySystems
    /\ intent_ran' = {}
    /\ produced' = NotProduced
    /\ applied' = NotApplied
    /\ robot_saw' = NotSeen
    /\ UNCHANGED <<player_input, robot_target, notIntent>>

NextIntent ==
    \/ MovementInput
    \/ AttackInput
    \/ RobotAi
    \/ ApplyMovement
    \/ ApplyAttack
    \/ IntentEndOfTick

(***************************************************************************)
(* health.rs: add_event::<ApplyHealthEvent>() and the EventReader of       *)
(* apply_health_events.  The engine keeps the events in two buffers: a     *)
(* send appends to the newer one, the update of First makes the newer the  *)
(* older and drops what the older held, and a reader remembers the count   *)
(* of events it has seen.  The senders are buy_items (Heal) and the        *)
(* projectiles' update in Update, and the melee swings in PostUpdate.      *)
(***************************************************************************)
EventSequence(start, events) == [start_event_count |-> start, events |-> events]

EventInstance(id, amount, sender) == [event_id |-> id, amount |-> amount, sender |-> sender]

\* Events::send
send(q, amount, sender) ==
    [q EXCEPT !.events_b.events = Append(@, EventInstance(q.event_count, amount, sender)),
              !.event_count = @ + 1]

\* Events::update
update(q) ==
    [q EXCEPT !.events_a = q.events_b,
              !.events_b = EventSequence(q.event_count, <<>>)]

SaturatingSub(a, b) == IF a > b THEN a - b ELSE 0

Skip(seq, n) == SubSeq(seq, n + 1, Len(seq))

\* a reader that forgets what it has seen
read_all(q, last_event_count) == q.events_a.events \o q.events_b.events

\* EventReader::read: the events of both buffers not seen before, oldest first
read(q, last_event_count) ==
    Skip(q.events_a.events, SaturatingSub(last_event_count, q.events_a.start_event_count))
    \o Skip(q.events_b.events, SaturatingSub(last_event_count, q.events_b.start_event_count))

\* apply_health_events' loop over the events read, from event k on
RECURSIVE ApplyRead(_, _, _)
ApplyRead(k, events, h) ==
    IF k > Len(events) THEN h
    ELSE ApplyRead(k + 1, events, add_assign(h, events[k].amount))

EventIds(events) == [k \in 1..Len(events) |-> events[k].event_id]

QueueUpdateSystems == {"apply_health_events", "buy_items", "update"}

InitQueue ==
    /\ queue = [events_a |-> EventSequence(0, <<>>), events_b |-> EventSequence(0, <<>>),
                event_count |-> 0]
    /\ queue_cursor = 0
    /\ queue_phase = "First"
    /\ queue_ran = {}
    /\ queue_health = Health_new(MaxHealth)
    /\ queue_alive = TRUE
    /\ queue_sent = <<>>
    /\ queue_applied = <<>>
    /\ queue_skipped = {}
    /\ queue_last_read = <<>>
    /\ queue_tick_start = 0

\* a system sends at most one event to the target in a tick
SendsFrom(system, amount) ==
    \/ UNCHANGED <<queue, queue_sent>>
    \/ /\ queue.event_count < MaxSent
       /\ queue' = send(queue, amount, system)
       /\ queue_sent' = Append(queue_sent, EventInstance(queue.event_count, amount, system))

\* First: event_update_system, which skips a tick in which no fixed step ran
EventUpdateSystem ==
    /\ queue_phase = "First"
    /\ \E updates \in BOOLEAN : queue' = IF updates THEN update(queue) ELSE queue
    /\ queue_phase' = "Update"
    /\ queue_ran' = {}
    /\ queue_tick_start' = queue.event_count
    /\ UNCHANGED <<queue_cursor, queue_health, queue_alive, queue_sent, queue_applied,
                   queue_skipped, queue_last_read, notQueue>>

\* Update: apply_health_events
QueueApplyHealthEvents ==
    /\ queue_phase = "Update"
    /\ "apply_health_events" \notin queue_ran
    /\ LET events == read(queue, queue_cursor)
       IN /\ queue_last_read' = events
          /\ IF queue_alive
             THEN /\ queue_health' = ApplyRead(1, events, queue_health)
                  /\ queue_applied' = queue_applied \o EventIds(events)
                  /\ UNCHANGED queue_skipped
             ELSE /\ queue_skipped' =
                        queue_skipped \cup {events[k].event_id : k \in 1..Len(events)}
                  /\ UNCHANGED <<queue_health, queue_applied>>
    /\ queue_cursor' = queue.event_count
    /\ queue_ran' = queue_ran \cup {"apply_health_events"}
    /\ UNCHANGED <<queue, queue_phase, queue_alive, queue_sent, queue_tick_start, notQueue>>

\* Update: buy_items, ShopItemEffect::Heal
QueueBuyItems ==
    /\ queue_phase = "Update"
    /\ "buy_items" \notin queue_ran
    /\ queue_alive
    /\ SendsFrom("buy_items", 1)
    /\ queue_ran' = queue_ran \cup {"buy_items"}
    /\ UNCHANGED <<queue_cursor, queue_phase, queue_health, queue_alive, queue_applied,
                   queue_skipped, queue_last_read, queue_tick_start, notQueue>>

\* Update: the projectiles' update
QueueProjectileUpdate ==
    /\ queue_phase = "Update"
    /\ "update" \notin queue_ran
    /\ queue_alive
    /\ SendsFrom("update", -1)
    /\ queue_ran' = queue_ran \cup {"update"}
    /\ UNCHANGED <<queue_cursor, queue_phase, queue_health, queue_alive, queue_applied,
                   queue_skipped, queue_last_read, queue_tick_start, notQueue>>

\* the end of Update: despawn_0_system's commands are applied
QueueEndOfUpdate ==
    /\ queue_phase = "Update"
    /\ queue_ran \cup (IF queue_alive THEN {} ELSE {"buy_items", "update"})
          = QueueUpdateSystems
    /\ queue_alive' = (queue_alive /\ ~is_dead(queue_health))
    /\ queue_phase' = "PostUpdate"
    /\ UNCHANGED <<queue, queue_cursor, queue_ran, queue_health, queue_sent, queue_applied,
                   queue_skipped, queue_last_read, queue_tick_start, notQueue>>

\* PostUpdate: cast_axes and cast_sledgehammer
QueueCastWeapons ==
    /\ queue_phase = "PostUpdate"
    /\ IF queue_alive THEN SendsFrom("cast_axes", -1) ELSE UNCHANGED <<queue, queue_sent>>
    /\ queue_phase' = "First"
    /\ UNCHANGED <<queue_cursor, queue_ran, queue_health, queue_alive, queue_applied,
                   queue_skipped, queue_last_read, queue_tick_start, notQueue>>

NextQueue ==
    \/ EventUpdateSystem
    \/ QueueApplyHealthEvents
    \/ QueueBuyItems
    \/ QueueProjectileUpdate
    \/ QueueEndOfUpdate
    \/ QueueCastWeapons

(***************************************************************************)
(* pickup.rs and item_pickups.rs: an item pickup detected by a magnet,     *)
(* flying to the magnet's root, picked up and destroyed.  Time is counted  *)
(* in steps of 0.2 s; the model follows a pickup through the last steps of *)
(* its lifetime.                                                           *)
(***************************************************************************)
\* pickup.rs: TIME_TO_FLY = 0.4
TIME_TO_FLY == 2

PickupDeltas == {1, 2}

PickupItems == {"Log", "Apple"}

NoPickup == [id |-> 0, item |-> "Log", state |-> "gone", progress |-> 0, lifetime |-> 0]

\* spawn_items: ItemPickup(item), PickupTag, DespawnAfter
ItemPickup(id, item, lifetime) ==
    [id |-> id, item |-> item, state |-> "lying", progress |-> 0, lifetime |-> lifetime]

SpawnCommands == [op : {"spawn"}, item : PickupItems, lifetime : 1..MaxLifetime]

\* a queued command on the pickup entity: insert FlyToEntity, or despawn_recursive
Command(op) == [op |-> op, item |-> "Log", lifetime |-> 0]

OnPickedUpEvent(pickup_entity) == [pickup_entity |-> pickup_entity, receiver_entity |-> "monkey"]

NoPickupLog == [before |-> EmptyMap, added |-> FALSE, despawned |-> "none"]

PickupSystems ==
    [PreUpdate |-> {"detect_pickup", "fly_to_target"},
     Update |-> {"despawn_after", "spawn_items", "perform_pickup"},
     Last |-> {"destroy_pickups"}]

\* the pickup after the queued commands: a despawn wins over an insert
ApplyPickupCommands(p, commands) ==
    IF Command("despawn") \in commands THEN [p EXCEPT !.state = "gone"]
    ELSE IF \E c \in commands : c \in SpawnCommands
    THEN LET c == CHOOSE c \in commands : c \in SpawnCommands
         IN  ItemPickup(p.id + 1, c.item, c.lifetime)
    ELSE IF Command("fly") \in commands /\ p.state = "lying"
    THEN [p EXCEPT !.state = "flying", !.progress = 0]
    ELSE p

\* perform_pickup adding a unit for the event and one more
perform_pickup_twice(inv, events, p, alive) ==
    IF Len(events) = 0 \/ p.state = "gone" \/ ~alive THEN inv
    ELSE add_item(inv, p.item, 2, FALSE).items

\* perform_pickup's loop; the model has at most one event in a tick
perform_pickup(inv, events, p, alive) ==
    IF Len(events) = 0 \/ p.state = "gone" \/ ~alive THEN inv
    ELSE add_item(inv, p.item, 1, FALSE).items

InitPickup ==
    /\ pickup = NoPickup
    /\ receiver_alive = TRUE
    /\ receiver_items = EmptyMap
    /\ pickup_events = <<>>
    /\ pickup_commands = {}
    /\ pickup_phase = "PreUpdate"
    /\ pickup_ran = {}
    /\ pickup_delta \in PickupDeltas
    /\ pickup_adds = [id \in 1..MaxPickups |-> 0]
    /\ pickup_sent = [id \in 1..MaxPickups |-> 0]
    /\ pickup_log = NoPickupLog

PickupRuns(phase, system) ==
    /\ pickup_phase = phase
    /\ system \notin pickup_ran
    /\ pickup_ran' = pickup_ran \cup {system}

\* PreUpdate: detect_pickup reading the CollisionEvents of the tick
DetectPickup ==
    /\ PickupRuns("PreUpdate", "detect_pickup")
    /\ \E collides \in BOOLEAN :
          pickup_commands' =
              IF collides /\ pickup.state = "lying" /\ receiver_alive
              THEN pickup_commands \cup {Command("fly")}
              ELSE pickup_commands
    /\ UNCHANGED <<pickup, receiver_alive, receiver_items, pickup_events, pickup_phase,
                   pickup_delta, pickup_adds, pickup_sent, pickup_log, notPickup>>

\* PreUpdate: fly_to_target
FlyToTarget ==
    /\ PickupRuns("PreUpdate", "fly_to_target")
    /\ IF pickup.state # "flying"
       THEN UNCHANGED <<pickup, pickup_commands, pickup_events, pickup_sent>>
       ELSE IF ~receiver_alive
       THEN /\ pickup_commands' = pickup_commands \cup {Command("despawn")}
            /\ UNCHANGED <<pickup, pickup_events, pickup_sent>>
       ELSE LET progress == Min(pickup.progress + pickup_delta, TIME_TO_FLY + 1)
            IN  /\ pickup' = [pickup EXCEPT !.progress = progress]
                /\ IF progress >= TIME_TO_FLY
                   THEN /\ pickup_events' = Append(pickup_events, OnPickedUpEvent(pickup.id))
                        /\ pickup_sent' = [pickup_sent EXCEPT ![pickup.id] = @ + 1]
                   ELSE UNCHANGED <<pickup_events, pickup_sent>>
                /\ UNCHANGED pickup_commands
    /\ UNCHANGED <<receiver_alive, receiver_items, pickup_phase, pickup_delta, pickup_adds,
                   pickup_log, notPickup>>

\* Update: despawn_after
DespawnAfter ==
    /\ PickupRuns("Update", "despawn_after")
    /\ IF pickup.state = "gone"
       THEN UNCHANGED <<pickup, pickup_commands>>
       ELSE /\ pickup' = [pickup EXCEPT !.lifetime = @ - pickup_delta]
            /\ pickup_commands' = IF pickup'.lifetime <= 0
                                  THEN pickup_commands \cup {Command("despawn")}
                                  ELSE pickup_commands
    /\ UNCHANGED <<receiver_alive, receiver_items, pickup_events, pickup_phase,
                   pickup_delta, pickup_adds, pickup_sent, pickup_log, notPickup>>

\* Update: spawn_items reading the SpawnItemEvents of the tick
SpawnItems ==
    /\ PickupRuns("Update", "spawn_items")
    /\ \/ UNCHANGED pickup_commands
       \/ /\ pickup.state = "gone"
          /\ pickup.id < MaxPickups
          /\ \E c \in SpawnCommands : pickup_commands' = pickup_commands \cup {c}
    /\ UNCHANGED <<pickup, receiver_alive, receiver_items, pickup_events, pickup_phase,
                   pickup_delta, pickup_adds, pickup_sent, pickup_log, notPickup>>

\* Update: perform_pickup
PerformPickupEvents ==
    /\ PickupRuns("Update", "perform_pickup")
    /\ receiver_items' = perform_pickup(receiver_items, pickup_events, pickup, receiver_alive)
    /\ IF receiver_items' # receiver_items
       THEN /\ pickup_adds' = [pickup_adds EXCEPT ![pickup.id] = @ + 1]
            /\ pickup_log' = [pickup_log EXCEPT !.added = TRUE]
       ELSE UNCHANGED <<pickup_adds, pickup_log>>
    /\ UNCHANGED <<pickup, receiver_alive, pickup_events, pickup_commands, pickup_phase,
                   pickup_delta, pickup_sent, notPickup>>

\* Last: destroy_pickups
DestroyPickups ==
    /\ PickupRuns("Last", "destroy_pickups")
    /\ pickup_commands' = IF Len(pickup_events) > 0 /\ pickup.state # "gone"
                          THEN pickup_commands \cup {Command("despawn")}
                          ELSE pickup_commands
    /\ UNCHANGED <<pickup, receiver_alive, receiver_items, pickup_events, pickup_phase,
                   pickup_delta, pickup_adds, pickup_sent, pickup_log, notPickup>>

\* the end of a schedule: its commands are applied; at the end of Update the
\* receiver may have been killed, at the end of Last the next tick begins
PickupApplyDeferred ==
    /\ pickup_phase \in DOMAIN PickupSystems
    /\ pickup_ran = PickupSystems[pickup_phase]
    /\ pickup' = ApplyPickupCommands(pickup, pickup_commands)
    /\ pickup_commands' = {}
    /\ pickup_ran' = {}
    /\ pickup_phase' = CASE pickup_phase = "PreUpdate" -> "Update"
                         [] pickup_phase = "Update" -> "Last"
                         [] OTHER -> "First"
    /\ \E dies \in BOOLEAN :
          receiver_alive' = (receiver_alive /\ ~(dies /\ pickup_phase = "Update"))
    /\ pickup_log' = IF pickup.state # "gone" /\ pickup'.state = "gone"
                     THEN [pickup_log EXCEPT !.despawned = pickup_phase]
                     ELSE pickup_log
    /\ UNCHANGED <<receiver_items, pickup_events, pickup_delta, pickup_adds, pickup_sent,
                   notPickup>>

\* First of the next tick: the time advances and the tick's events are behind
\* every reader
PickupNextTick ==
    /\ pickup_phase = "First"
    /\ pickup_phase' = "PreUpdate"
    /\ pickup_events' = <<>>
    /\ pickup_delta' \in PickupDeltas
    /\ pickup_log' = [NoPickupLog EXCEPT !.before = receiver_items]
    /\ UNCHANGED <<pickup, receiver_alive, receiver_items, pickup_commands, pickup_ran,
                   pickup_adds, pickup_sent, notPickup>>

NextPickup ==
    \/ DetectPickup
    \/ FlyToTarget
    \/ DespawnAfter
    \/ SpawnItems
    \/ PerformPickupEvents
    \/ DestroyPickups
    \/ PickupApplyDeferred
    \/ PickupNextTick

(***************************************************************************)
(* The specifications.                                                     *)
(***************************************************************************)
\* the variables of a subsystem that is not running
IdleInventory == InitInventory

IdleState == InitState /\ num_waves = 1

IdleWeapon == InitWeapon /\ weapon_type["actor"] = "Axe" /\ cooldown_mul["actor"] = 100

IdleHealth == InitHealth /\ \A e \in HealthEntities : health[e].max = 1

IdleMelee == InitMelee /\ damage_add[MeleeCaster] = 0

IdleProjectile == InitProjectile /\ projectile_asset.max_hits = 1 /\ asset_ready

\* main.rs setup: the first offer
PlantTreeOffer ==
    [cost |-> <<<<"Log", 1>>>>, effects |-> <<Effect("PlantTree", 0)>>, permanent |-> TRUE]

IdleShop == InitShop /\ shop_item[OfferEntity] = PlantTreeOffer

IdleIntent == InitIntent

IdleQueue == InitQueue

IdlePickup == InitPickup /\ pickup_delta = 1

Idle == IdleWeapon /\ IdleHealth /\ IdleMelee /\ IdleProjectile /\ IdleShop /\ IdleIntent
        /\ IdleQueue /\ IdlePickup

vars == <<invVars, stateVars, weaponVars, healthVars, meleeVars, projectileVars,
          shopVars, intentVars, queueVars, pickupVars, overflow_checks>>

\* the inventory alone: the wave state machine stays as constructed
InitSpecInventory == overflow_checks \in BOOLEAN /\ InitInventory /\ IdleState /\ Idle

SpecInventory == InitSpecInventory /\ [][NextInventory]_vars

\* the wave state machine alone: the inventory stays empty
InitSpecState == overflow_checks \in BOOLEAN /\ InitState /\ IdleInventory /\ Idle

SpecState == InitSpecState /\ [][NextState]_vars

\* the weapon cooldown gate alone
InitSpecWeapon ==
    /\ overflow_checks = FALSE
    /\ InitWeapon /\ IdleInventory /\ IdleState /\ IdleHealth /\ IdleMelee
    /\ IdleProjectile /\ IdleShop /\ IdleIntent /\ IdleQueue /\ IdlePickup

SpecWeapon == InitSpecWeapon /\ [][NextWeapon]_vars

\* health and death alone
InitSpecHealth ==
    /\ overflow_checks = FALSE
    /\ InitHealth /\ IdleInventory /\ IdleState /\ IdleWeapon /\ IdleMelee
    /\ IdleProjectile /\ IdleShop /\ IdleIntent /\ IdleQueue /\ IdlePickup

SpecHealth == InitSpecHealth /\ [][NextHealth]_vars

\* the melee swings alone
InitSpecMelee ==
    /\ overflow_checks = FALSE
    /\ InitMelee /\ IdleInventory /\ IdleState /\ IdleWeapon /\ IdleHealth
    /\ IdleProjectile /\ IdleShop /\ IdleIntent /\ IdleQueue /\ IdlePickup

SpecMelee == InitSpecMelee /\ [][NextMelee]_vars

\* the projectiles alone
InitSpecProjectile ==
    /\ overflow_checks = FALSE
    /\ InitProjectile /\ IdleInventory /\ IdleState /\ IdleWeapon /\ IdleHealth
    /\ IdleMelee /\ IdleShop /\ IdleIntent /\ IdleQueue /\ IdlePickup

SpecProjectile == InitSpecProjectile /\ [][NextProjectile]_vars

\* the projectiles with the ticks the engine keeps running: a system that can
\* run does run
SpecProjectileFair == SpecProjectile /\ WF_vars(NextProjectile)

\* the shop with the buyer's inventory
InitSpecShop ==
    /\ overflow_checks \in BOOLEAN
    /\ InitShop /\ InitInventory /\ IdleState /\ IdleWeapon /\ IdleHealth /\ IdleMelee
    /\ IdleProjectile /\ IdleIntent /\ IdleQueue /\ IdlePickup

SpecShop == InitSpecShop /\ [][NextShop]_vars

\* the intents alone
InitSpecIntent ==
    /\ overflow_checks = FALSE
    /\ InitIntent /\ IdleInventory /\ IdleState /\ IdleWeapon /\ IdleHealth /\ IdleMelee
    /\ IdleProjectile /\ IdleShop /\ IdleQueue /\ IdlePickup

SpecIntent == InitSpecIntent /\ [][NextIntent]_vars

\* the ApplyHealthEvent queue alone
InitSpecQueue ==
    /\ overflow_checks = FALSE
    /\ InitQueue /\ IdleInventory /\ IdleState /\ IdleWeapon /\ IdleHealth /\ IdleMelee
    /\ IdleProjectile /\ IdleShop /\ IdleIntent /\ IdlePickup

SpecQueue == InitSpecQueue /\ [][NextQueue]_vars

\* the pickups alone
InitSpecPickup ==
    /\ overflow_checks = FALSE
    /\ InitPickup /\ IdleInventory /\ IdleState /\ IdleWeapon /\ IdleHealth /\ IdleMelee
    /\ IdleProjectile /\ IdleShop /\ IdleIntent /\ IdleQueue

SpecPickup == InitSpecPickup /\ [][NextPickup]_vars

(***************************************************************************)
(* Claims about the inventory.                                             *)
(***************************************************************************)
SomePairShort(inv, batch) ==
    \E k \in 1..Len(batch) : ~U32Ge(get_item_count(inv, batch[k][1]), batch[k][2])

RECURSIVE Required(_, _, _)
Required(batch, item, k) ==
    IF k > Len(batch) THEN 0
    ELSE (IF batch[k][1] = item THEN batch[k][2] ELSE 0) + Required(batch, item, k + 1)

\* C1: spend_items returns false whenever some pair of the batch requires more
\* than the inventory holds, and whenever it returns false the inventory is
\* exactly the inventory before the call.
C1_FailureLeavesInventory ==
    inv_call.op = "spend_items" =>
        /\ SomePairShort(inv_call.before, inv_call.batch)
              => (inv_fault = "none" /\ inv_call.ret = FALSE)
        /\ (inv_fault = "none" /\ inv_call.ret = FALSE) => items = inv_call.before

\* C1 witness: a batch whose first pair could be paid and whose second pair
\* cannot has been refused, and the inventory still holds the first pair's item.
C1_Witness ==
    /\ inv_call.op = "spend_items"
    /\ inv_fault = "none"
    /\ inv_call.ret = FALSE
    /\ Len(inv_call.batch) = 2
    /\ inv_call.batch[1][2] > 0
    /\ U32Ge(get_item_count(inv_call.before, inv_call.batch[1][1]), inv_call.batch[1][2])
    /\ ~U32Ge(get_item_count(inv_call.before, inv_call.batch[2][1]), inv_call.batch[2][2])
    /\ items = inv_call.before

\* C2: spend_items never faults; it returns true only if every pair's count is
\* available, and then every item's count is its previous count minus the
\* amount the batch requires of it; no count wraps.
C2_SuccessDeductsBatch ==
    inv_call.op = "spend_items" =>
        /\ inv_fault = "none"
        /\ \A i \in DOMAIN items : items[i] >= 0
        /\ inv_call.ret =>
              /\ ~SomePairShort(inv_call.before, inv_call.batch)
              /\ \A i \in Item :
                    get_item_count(items, i)
                        = get_item_count(inv_call.before, i) - Required(inv_call.batch, i, 1)

(***************************************************************************)
(* Claims about the wave state machine.                                    *)
(***************************************************************************)
\* Last of the current tick has begun (robots, trees, player and waves_loaded
\* do not change until the next Update)
LastBegun == schedule = "Last" \/ last_ran = LastSystems

\* the tick is over: every system of Last ran and the commands were applied
EndOfTick == schedule = "Update" /\ last_ran = LastSystems /\ state_fault = "none"

PostWarmUp == last_entry.frame_count > 3

Texts(notes) == {notes[i].text : i \in 1..Len(notes)}

C3_Pre ==
    /\ LastBegun
    /\ PostWarmUp
    /\ waves_loaded
    /\ last_entry.app_state.k = "Wave"
    /\ last_entry.app_state.w < num_waves - 1
    /\ check_for_no_robots
    /\ ~check_for_loss

\* C3: in a post-warm-up tick whose Last finds Wave(n), n not the final index of
\* the loaded descriptors, no hostile body and no loss, nothing panics and the
\* tick ends in Wave(n+1) with exactly nb_enemies enemy spawn requests, every
\* shop offer of the descriptor published and exactly one wave notification.
C3_NextWaveEmitsBatch ==
    C3_Pre =>
        /\ state_fault = "none"
        /\ EndOfTick =>
              /\ app_state = Wave(last_entry.app_state.w + 1)
              /\ Len(spawn_player_event) = wave_descriptor.nb_enemies
              /\ \A i \in 1..Len(spawn_player_event) :
                    spawn_player_event[i].body \in Hostile /\ ~spawn_player_event[i].is_main
              /\ spawn_shop_item_event = wave_descriptor.new_shop_items
              /\ notification_event = <<Note("Wave", last_entry.app_state.w + 1)>>

\* C3 witness: a tick has taken Wave(0) to Wave(1) and emitted two enemies and
\* one shop offer.
C3_Witness ==
    /\ C3_Pre
    /\ EndOfTick
    /\ app_state = Wave(1)
    /\ Len(spawn_player_event) = 2
    /\ spawn_shop_item_event = 1

C4_Pre ==
    /\ LastBegun
    /\ PostWarmUp
    /\ waves_loaded
    /\ num_waves >= 1
    /\ last_entry.app_state = Wave(num_waves - 1)
    /\ check_for_no_robots

WaveIndexInRange ==
    (state_fault = "none" /\ num_waves >= 1 /\ app_state.k = "Wave")
        => app_state.w <= num_waves - 1

\* C4 as claimed: a post-warm-up tick that finds Wave(f), f the final index, and
\* no hostile body ends in Win; and every state Wave(n) has n <= f.
C4_FinalWaveWins ==
    /\ C4_Pre => (state_fault = "none" /\ (EndOfTick => app_state = Win))
    /\ WaveIndexInRange

\* C4 amended: such a tick ends in Win when the loss predicate is false and in
\* Lost when it holds, never in Wave(f+1); and every state Wave(n) of a running
\* game has n <= f.
C4_FinalWaveWinsUnlessLost ==
    /\ C4_Pre =>
          /\ state_fault = "none"
          /\ EndOfTick => app_state = (IF check_for_loss THEN Lost ELSE Win)
    /\ WaveIndexInRange

\* C4 witness: a game of at least two waves has been won in the tick that
\* found the final wave cleared.
C4_Witness ==
    /\ C4_Pre
    /\ EndOfTick
    /\ num_waves >= 2
    /\ app_state = Win

\* C5: a post-warm-up tick that finds Wave(n) with the loss predicate true ends
\* in Lost, and neither the win nor the next-wave transition takes effect in
\* it: no enemy batch, no shop offer, no wave or win notification.
C5_LossFirst ==
    (EndOfTick /\ PostWarmUp /\ last_entry.app_state.k = "Wave" /\ check_for_loss) =>
              /\ app_state = Lost
              /\ spawn_player_event = <<>>
              /\ spawn_shop_item_event = 0
              /\ Texts(notification_event) \cap {"Wave", "You Win!"} = {}

\* C6: once AppState is Lost or Win it never changes, and no enemy batch or shop
\* offer is emitted afterwards.
C6_Terminal ==
    [][app_state.k \in {"Lost", "Win"} =>
          /\ app_state' = app_state
          /\ Len(spawn_player_event') <= Len(spawn_player_event)
          /\ spawn_shop_item_event' <= spawn_shop_item_event]_vars

(***************************************************************************)
(* Claims about the weapon cooldown gate.                                  *)
(***************************************************************************)
\* the number of events of a queue that name the caster
Intents(events, caster) == Cardinality({k \in 1..Len(events) : events[k] = caster})

Casts(events, caster) ==
    Cardinality({k \in 1..Len(events) : events[k].caster_entity = caster})

\* C7: a TryCastWeaponEvent whose caster has time_left > 0 when promote_try_cast
\* processes it produces no CastWeaponEvent, is not left in the queue for a
\* later tick, and time_left changes in the tick only by update_cooldown's
\* subtraction of the elapsed time.
C7_CooldownDropsIntent ==
    [][\A c \in Casters :
          /\ (weapon_step = "promote_try_cast" /\ time_left[c] > 0) =>
                /\ Casts(cast_events', c) = 0
                /\ time_left'[c] = time_left[c]
                /\ try_cast_events' = <<>>
          /\ weapon_step = "update_cooldown" => time_left'[c] = time_left[c] - delta'
          /\ weapon_step \in {"Update", "cast"} => time_left'[c] = time_left[c]]_vars

\* promote_try_cast has run and dropped an intent of a caster on cooldown
C7_Witness ==
    /\ weapon_step = "cast"
    /\ \E c \in Casters : c \in tried /\ time_left[c] > 0 /\ Casts(cast_events, c) = 0
    /\ try_cast_events = <<>>

\* the base cooldowns the claim names, in hundredths of a second
ClaimedBase == [Axe |-> 40, Bow |-> 60, SledgeHammer |-> 140]

ClaimedProduct(c) == (ClaimedBase[weapon_type[c]] * cooldown_mul[c]) \div 100

\* C8: an honoured intent (time_left <= 0) sends exactly one CastWeaponEvent and
\* sets time_left to base cooldown times cooldown_mul; for a positive product
\* the caster casts at most once in the tick, and the time elapsed since its
\* previous cast is at least the cooldown that cast set.
C8_HonouredCastSetsCooldown ==
    [][weapon_step = "promote_try_cast" =>
          \A c \in Casters :
              (Intents(try_cast_events, c) > 0 /\ time_left[c] <= 0) =>
                  /\ time_left'[c] = ClaimedProduct(c)
                  /\ \A k \in 1..Len(cast_events') :
                        cast_events'[k].caster_entity = c =>
                            cast_events'[k].weapon_type = weapon_type[c]
                  /\ ClaimedProduct(c) > 0 =>
                        /\ Casts(cast_events', c) = 1
                        /\ (since_cast[c] >= 0 /\ cast_cooldown[c] > 0) =>
                              since_cast[c] >= cast_cooldown[c]
                  /\ ClaimedProduct(c) <= 0 =>
                        Casts(cast_events', c) = Intents(try_cast_events, c)]_vars

\* promote_try_cast has honoured an intent of a caster that cast before: one
\* event, the cooldown set, and the previous cast at least a cooldown ago
C8_Witness ==
    /\ weapon_step = "cast"
    /\ \E c \in Casters :
          /\ c \in tried
          /\ Casts(cast_events, c) = 1
          /\ time_left[c] = ClaimedProduct(c)
          /\ time_left[c] > 0
          /\ prev_gap[c] > 0

(***************************************************************************)
(* Claims about health and death.                                          *)
(***************************************************************************)
\* apply_health_events has run in this tick and its commands are not yet applied
Applied == "apply_health_events" \in health_ran

\* the tick is over: both systems ran and the commands were applied
TickOver == health_ran = {}

\* the amounts of the events that name the entity, in the order read
RECURSIVE AmountsFor(_, _, _)
AmountsFor(events, e, k) ==
    IF k > Len(events) THEN <<>>
    ELSE IF events[k].target_entity = e
         THEN <<events[k].amount>> \o AmountsFor(events, e, k + 1)
         ELSE AmountsFor(events, e, k + 1)

\* what the claim says of one delta: clamped at max above, subtracted in full below
ClaimedStep(current, max, d) ==
    IF d < 0 THEN current + d
    ELSE IF current + d > max THEN max ELSE current + d

\* the values of current after each delta of the sequence, the start included
RECURSIVE ClaimedRun(_, _, _, _)
ClaimedRun(current, max, ds, k) ==
    IF k > Len(ds) THEN <<current>>
    ELSE <<current>> \o ClaimedRun(ClaimedStep(current, max, ds[k]), max, ds, k + 1)

Last(seq) == seq[Len(seq)]

RECURSIVE SumSeq(_, _)
SumSeq(ds, k) == IF k > Len(ds) THEN 0 ELSE ds[k] + SumSeq(ds, k + 1)

\* C9: a Health made by Health::new(M) has current <= M after every delta
\* applied through +=; a positive delta is clamped at M, a negative one is
\* subtracted in full, below zero too; is_dead() is true exactly when
\* current <= 0.
C9_HealthClampsAbove ==
    /\ \A e \in DOMAIN health :
          /\ health[e].current <= health[e].max
          /\ is_dead(health[e]) <=> health[e].current <= 0
    /\ Applied =>
          \A e \in DOMAIN health_before :
              LET run == ClaimedRun(health_before[e].current, health_before[e].max,
                                    AmountsFor(health_events, e, 1), 1)
              IN /\ e \in DOMAIN health
                 /\ health[e].max = health_before[e].max
                 /\ health[e].current = Last(run)
                 /\ \A k \in 1..Len(run) : run[k] <= health_before[e].max

\* apply_health_events healed an entity at full health, which stayed at max, and
\* then took it below zero
C9_Witness ==
    /\ Applied
    /\ \E e \in DOMAIN health_before :
          /\ health_before[e].current = health_before[e].max
          /\ AmountsFor(health_events, e, 1) = <<1, -2>>
          /\ health[e].current = health_before[e].max - 2
          /\ health[e].current < 0
          /\ is_dead(health[e])

\* every entity is despawned at most once with its children, by the end of the
\* tick in which despawn_0_system found it dead, and its death sound is played
\* exactly once if it has one
DeathHandledOnce ==
    /\ \A e \in HealthEntities : despawns[e] <= 1 /\ death_sounds[e] <= 1
    /\ DOMAIN health = entities \cap HealthEntities
    /\ TickOver =>
          \A e \in HealthEntities :
              /\ despawns[e] = 1 =>
                    /\ e \notin entities
                    /\ Children(e) \cap entities = {}
                    /\ death_sounds[e] = (IF DeathSound(e) THEN 1 ELSE 0)
              /\ despawns[e] = 0 => (e \in entities /\ death_sounds[e] = 0)

\* an entity that was dead when apply_health_events ran and was sent only
\* negative amounts
DoubleKilled(e) ==
    /\ Applied
    /\ e \in DOMAIN health_before
    /\ is_dead(health_before[e])
    /\ AmountsFor(health_events, e, 1) # <<>>
    /\ \A k \in 1..Len(health_events) :
          health_events[k].target_entity = e => health_events[k].amount < 0

\* C10: death is handled once: a dead entity is removed with its children by
\* the end of the tick in which despawn_0_system observes it, its death
\* sound is played exactly once, and a further negative delta for an
\* already-dead entity causes no second despawn, no second sound and no other
\* effect.
C10_DeathHandledOnce ==
    /\ DeathHandledOnce
    /\ \A e \in HealthEntities : DoubleKilled(e) => health[e] = health_before[e]

\* C10, amended: as C10, but a further negative delta for an already-dead
\* entity that still exists lowers its Health.current by the delta.
C10_DeathHandledOnceHealthLowered ==
    /\ DeathHandledOnce
    /\ \A e \in HealthEntities :
          DoubleKilled(e) =>
              /\ health[e].max = health_before[e].max
              /\ health[e].current =
                    health_before[e].current + SumSeq(AmountsFor(health_events, e, 1), 1)
              /\ health[e].current < health_before[e].current

\* the robot was sent a negative amount while dead, and was despawned with its
\* collider and its death sound played once
C10_Witness ==
    /\ TickOver
    /\ "robot" \in overkilled
    /\ despawns["robot"] = 1
    /\ death_sounds["robot"] = 1
    /\ entities \cap {"robot", "robot_collider"} = {}

(***************************************************************************)
(* Claims about the melee swings.                                          *)
(***************************************************************************)
RECURSIVE SentBy(_, _)
SentBy(swings, k) ==
    IF k > Len(swings) THEN <<>> ELSE swings[k].sent \o SentBy(swings, k + 1)

Targets(sent) == {sent[k].target_entity : k \in 1..Len(sent)}

IndexOf(q, e) == CHOOSE k \in 1..Len(q) : q[k] = e

\* the claim's test of a candidate: it has Health, is not the caster, and the
\* dot product of the cast direction with the unit vector from the caster to
\* it is at least 0.3
ClaimedEligible(event, e) ==
    /\ e \in MeleeBodies
    /\ e # event.caster_entity
    /\ LET d == Sub(melee_pos[e], melee_pos[event.caster_entity])
           p == Dot(event.dir, d)
       IN  /\ Dot(d, d) > 0
           /\ p > 0
           /\ 100 * p * p >= 9 * Dot(d, d)

ClaimedDamage == [Axe |-> 1, SledgeHammer |-> 6]

\* C11: a swing of an Axe or a SledgeHammer sends at most 2 ApplyHealthEvents,
\* whatever the order in which the shape query reports the candidates, and the
\* candidate of the second hit is the last one examined; the events the cast
\* systems sent in a tick are those of its swings.
C11_MeleeHitCap ==
    /\ \A i \in 1..Len(melee_swings) :
          LET s == melee_swings[i] IN
          /\ Len(s.sent) <= 2
          /\ Len(s.sent) = 2 => s.examined = IndexOf(s.reported, s.sent[2].target_entity)
    /\ melee_health_events = SentBy(melee_swings, 1)

\* a swing around which three candidates that pass the test stand: two are
\* hit and the third, reported last, is not examined
C11_Witness ==
    \E i \in 1..Len(melee_swings) :
        LET s == melee_swings[i] IN
        /\ Len(s.reported) = 3
        /\ \A k \in 1..3 : ClaimedEligible(s.event, s.reported[k])
        /\ Len(s.sent) = 2
        /\ s.examined = 2

Budget == IF projectile_asset.max_hits < 0 THEN 0 ELSE projectile_asset.max_hits

\* C13: over its whole life a projectile sends at most max_hits
\* ApplyHealthEvents, for every max_hits a projectile file can configure, and
\* a projectile whose despawn is queued has spent its budget.
C13_ProjectileBudget ==
    \A id \in 1..MaxProjectiles :
        /\ emitted[id] <= Budget
        /\ id \in projectile_despawn_commands =>
              projectile[id].hits >= projectile_asset.max_hits

\* C14: every spawned projectile is eventually destroyed.
C14_ProjectileDestroyed ==
    \A id \in 1..MaxProjectiles :
        (id \in DOMAIN projectile) ~> (id \notin DOMAIN projectile)
(***************************************************************************)
(* Claims about the stored counts.                                         *)
(***************************************************************************)
\* C16: after any sequence of add_item, spend_item and spend_items calls, with
\* any arguments, every stored count is at least 1: no entry of count 0, no
\* negative or wrapped count.
C16_StoredCountsPositive ==
    \A i \in DOMAIN items : items[i] >= 1
(***************************************************************************)
(* Claims about the shop.                                                  *)
(***************************************************************************)
\* the total a cost asks of an item
RECURSIVE Asked(_, _, _)
Asked(cost, item, k) ==
    IF k > Len(cost) THEN 0
    ELSE (IF cost[k][1] = item THEN cost[k][2] ELSE 0) + Asked(cost, item, k + 1)

\* the inventory covers the cost
Covered(inv, cost) ==
    \A k \in 1..Len(cost) :
        /\ cost[k][1] \in DOMAIN inv
        /\ inv[cost[k][1]] >= Asked(cost, cost[k][1], 1)

\* C15: buy_items applies an offer's effects exactly when spend_items on the
\* buyer's inventory with the offer's cost succeeds; a success removes the
\* offer unless it is permanent; when the cost is not covered, the buyer has
\* no inventory or the offer is gone, the inventory, the weapon stats and the
\* offers are as before and no effect event is sent; the purchase completes.
C15_BuyAppliesIffPaid ==
    /\ shop_log # <<>> => inv_fault = "none"
    /\ \A i \in 1..Len(shop_log) :
          LET l == shop_log[i]
              data == shop_item[l.item]
              e == ApplyEffects(data.effects, 1, l.stats_before, <<>>)
          IN
          /\ l.ret => l.sent = e.sent /\ l.stats_after = e.stats
          /\ l.ret => (l.despawned <=> ~data.permanent)
          /\ ~l.ret => l.sent = <<>> /\ l.stats_after = l.stats_before /\ ~l.despawned
          /\ (~l.found \/ ~l.has_inventory \/ ~Covered(l.items_before, data.cost)) =>
                /\ l.items_after = l.items_before
                /\ l.stats_after = l.stats_before
                /\ l.sent = <<>>
                /\ ~l.despawned
(***************************************************************************)
(* Claims about the enemy batch and the warm-up.                           *)
(***************************************************************************)
\* the batch handle_next_wave sent in this tick, not yet read
BatchSent ==
    /\ state_fault = "none"
    /\ "handle_next_wave" \in last_ran
    /\ spawn_player_event # <<>>

Stronger(events) == Cardinality({i \in 1..Len(events) : events[i].body # "Robot"})

StartupApplied ==
    /\ startup_trees = "done"
    /\ \A i \in 1..Len(spawn_player_event) : ~spawn_player_event[i].is_main

\* a transition was taken, or queued, in this tick
Transitioned == app_state # last_entry.app_state \/ lost_command

StateHandlers == {"handle_win", "handle_next_wave", "handle_loss"}

\* C18 as claimed: no transition is taken while the frame count is at most 3,
\* and the run conditions of the three handlers are evaluated only against a
\* world in which the spawn requests of setup have been applied.
C18_WarmUpGuard ==
    /\ Transitioned => frame_count > 3
    /\ last_ran \cap StateHandlers # {} => StartupApplied

\* C18, amended: no transition is taken while the frame count is at most 3, and
\* whenever the frame guard passes the spawn requests of setup have been
\* applied; in the ticks before, the run conditions are evaluated and ignored.
C18_TransitionsAfterStartup ==
    /\ Transitioned => frame_count > 3
    /\ FrameOk => StartupApplied

\* the first tick: the trees of setup are not spawned yet, every handler's run
\* conditions were evaluated, the loss predicate holds, and nothing happened
C18_Witness ==
    /\ StateHandlers \subseteq last_ran
    /\ schedule = "Last"
    /\ frame_count <= 3
    /\ ~StartupApplied
    /\ check_for_loss
    /\ ~Transitioned
    /\ state_fault = "none"

(***************************************************************************)
(* Claims about the writers of shared state.                               *)
(***************************************************************************)
\* the systems that wrote AppState in this tick: handle_win and
\* handle_next_wave through ResMut, handle_loss through its queued command
AppStateWriters ==
    (IF app_state # last_entry.app_state /\ app_state = Win /\ schedule = "Last"
        THEN {"handle_win"} ELSE {})
    \cup (IF app_state # last_entry.app_state /\ app_state.k = "Wave" /\ schedule = "Last"
        THEN {"handle_next_wave"} ELSE {})
    \cup (IF lost_command THEN {"handle_loss"} ELSE {})

\* C19: in every tick AppState has at most one writer, counting a deferred
\* command as a write.
C19_SingleWriter == Cardinality(AppStateWriters) <= 1

(***************************************************************************)
(* Claims about the intents.                                               *)
(***************************************************************************)
\* C20: the gathering systems have all run before apply_movement or
\* apply_attack runs, and an intent that is applied was written by a gathering
\* system of the same tick: a movement or an attack left from an earlier tick
\* is never applied.
C20_IntentsPerTick ==
    /\ intent_ran \cap ApplySystems # {} => GatherSystems \subseteq intent_ran
    /\ \A a \in Actors :
          /\ applied[a].movement # ZERO => produced[a].movement
          /\ applied[a].attack.some => produced[a].attack

MonkeyNear(w) == w["monkey"] # 0 /\ w["monkey"] < 25

\* C22: a robot whose target is a living monkey keeps it; otherwise a monkey
\* within attack_monkey_range becomes the target; otherwise a robot without a
\* valid target takes a tree trunk or a tree spawner that is, among the
\* entities of its kind, at the minimum squared distance, and none only when
\* there is neither.
C22_TargetSelection ==
    robot_saw.ran =>
        LET w == robot_saw.world
            b == robot_saw.before
            t == robot_target
            others == {e \in RobotTargets \ {"monkey"} : w[e] # 0}
        IN
        /\ (b = "monkey" /\ w["monkey"] # 0) => t = "monkey"
        /\ (b # "monkey" /\ MonkeyNear(w)) => t = "monkey"
        /\ (~MonkeyNear(w) /\ (b = "none" \/ w[b] = 0)) =>
              /\ t = "none" <=> others = {}
              /\ t # "none" =>
                    /\ t \in others
                    /\ \A o \in others : TargetKind[o] = TargetKind[t] => w[t] <= w[o]

\* no target, no monkey in range, no spawner, two trees: the nearer is taken
C22_Witness ==
    /\ robot_saw.ran
    /\ robot_saw.before = "none"
    /\ robot_saw.world = [monkey |-> 36, tree_a |-> 36, tree_b |-> 9, spawner |-> 0]
    /\ robot_target = "tree_b"

(***************************************************************************)
(* Claims about events that name a missing entity.                         *)
(***************************************************************************)
\* the event's target has no Health when apply_health_events reads it
Dangling(event) == event.target_entity \notin DOMAIN health_before

\* the events of the tick without the dangling ones, in the order read
RECURSIVE Resolvable(_, _)
Resolvable(events, k) ==
    IF k > Len(events) THEN <<>>
    ELSE IF Dangling(events[k]) THEN Resolvable(events, k + 1)
         ELSE <<events[k]>> \o Resolvable(events, k + 1)

C24_InertWithoutDescriptors ==
    (/\ schedule = "Last"
     /\ ~waves_loaded
     /\ last_entry.app_state.k = "Wave"
     /\ robots = 0)
    => /\ state_fault = "none"
       /\ app_state = last_entry.app_state
       /\ CountHostile(spawn_player_event) = 0

(***************************************************************************)
(* Claims about the ApplyHealthEvent queue.                                *)
(***************************************************************************)
\* the amounts of the events with the given ids, in that order
AmountsOf(ids) == [k \in 1..Len(ids) |-> queue_sent[ids[k] + 1].amount]

\* Health::new(MaxHealth) after the deltas, each added once through +=
RECURSIVE HealthAfter(_, _, _)
HealthAfter(h, ds, k) ==
    IF k > Len(ds) THEN h
    ELSE HealthAfter([h EXCEPT !.current = ClaimedStep(h.current, h.max, ds[k])], ds, k + 1)

\* C25: every ApplyHealthEvent whose target exists with Health when
\* apply_health_events reads it changes the target's health exactly once: no
\* event is applied twice, none is dropped from the buffers unread, each one
\* sent before a tick begins is read by the end of that tick's Update,
\* whichever schedule sent it, and the events are applied in the order sent.
C25_HealthEventsOnce ==
    /\ \A i, j \in 1..Len(queue_applied) : i < j => queue_applied[i] < queue_applied[j]
    /\ \A k \in 1..Len(queue_applied) : queue_applied[k] \notin queue_skipped
    /\ \A id \in 0..(queue.event_count - 1) :
          IF id < queue_cursor
          THEN id \in queue_skipped \/ \E k \in 1..Len(queue_applied) : queue_applied[k] = id
          ELSE \E k \in 1..Len(read(queue, queue_cursor)) :
                  read(queue, queue_cursor)[k] = queue_sent[id + 1]
    /\ queue_phase = "PostUpdate" => queue_cursor >= queue_tick_start
    /\ queue_health = HealthAfter(Health_new(MaxHealth), AmountsOf(queue_applied), 1)

\* one step of apply_health_events read a swing's event of the tick before and
\* then a Heal of its own tick, and applied both in that order
C25_Witness ==
    /\ "apply_health_events" \in queue_ran
    /\ queue_alive
    /\ Len(queue_last_read) = 2
    /\ queue_last_read[1].sender = "cast_axes"
    /\ queue_last_read[2].sender = "buy_items"
    /\ Len(queue_applied) >= 2
    /\ queue_applied[Len(queue_applied)] = queue_last_read[2].event_id
    /\ queue_applied[Len(queue_applied) - 1] = queue_last_read[1].event_id

(***************************************************************************)
(* Claims about the target of a projectile's health event.                 *)
(***************************************************************************)
\* the colliders spawned with a Health component, and those spawned with a
\* HealthRoot and the entity it names
WithHealth == {"monkey", "robot"}

WithHealthRoot == [trunk_hitbox |-> "trunk"]

\* the event the claim gives a crossed collider, none when it is passed through
ClaimedEvent(p, hit_entity) ==
    LET target == IF hit_entity \in WithHealth THEN hit_entity
                  ELSE IF hit_entity \in DOMAIN WithHealthRoot
                       THEN WithHealthRoot[hit_entity]
                       ELSE NoEntity
    IN  IF target = NoEntity \/ target = p.caster_entity THEN <<>>
        ELSE <<MeleeHealthEvent(-(projectile_asset.damage + cast_log[p.cast_no]), target,
                                p.caster_entity)>>

RECURSIVE ClaimedEvents(_, _, _)
ClaimedEvents(p, crossed, k) ==
    IF k > Len(crossed) THEN <<>>
    ELSE ClaimedEvent(p, crossed[k]) \o ClaimedEvents(p, crossed, k + 1)

\* C26: a projectile's health event targets the hit entity itself when it has
\* Health and the entity its HealthRoot names when it has a HealthRoot but no
\* Health; a collider with neither is passed through without spending hit
\* budget; no event's target is the projectile's caster; and the amount is
\* -(configured damage + the caster's damage_add when the projectile was cast).
C26_ProjectileTarget ==
    \A id \in DOMAIN ray_log :
        LET log == ray_log[id]
            claimed == ClaimedEvents(log.before, log.crossed, 1)
        IN  /\ Len(log.sent) <= Len(claimed)
            /\ log.sent = SubSeq(claimed, 1, Len(log.sent))
            /\ \A k \in 1..Len(log.sent) :
                  log.sent[k].target_entity # log.before.caster_entity
            /\ id \in DOMAIN projectile =>
                  projectile[id].hits = log.before.hits + Len(log.sent)

\* the player's arrow, cast before a damage upgrade was bought, crossed a
\* tower's collider and a trunk's hit box after it: the one event names the
\* trunk with the damage of the cast
C26_Witness ==
    \E id \in DOMAIN ray_log :
        /\ ray_log[id].before.caster_entity = "monkey"
        /\ ray_log[id].crossed = <<"tower_collider", "trunk_hitbox">>
        /\ cast_log[ray_log[id].before.cast_no] = 0
        /\ caster_damage_add["monkey"] = 1
        /\ ray_log[id].sent = <<MeleeHealthEvent(-projectile_asset.damage, "trunk", "monkey")>>
        /\ id \in DOMAIN projectile
        /\ projectile[id].hits = ray_log[id].before.hits + 1

(***************************************************************************)
(* Claims about the wave index.                                            *)
(***************************************************************************)
\* C27: with the wave descriptors loaded, handle_next_wave executes only in a
\* state Wave(n) with n+1 a valid descriptor index: neither its panic on a
\* state that is not Wave(_) nor an out-of-range descriptor index is reached.
C27_NextWaveInRange ==
    waves_loaded =>
        /\ state_fault \notin {"index", "unwrap"}
        /\ (/\ schedule = "Last"
            /\ "handle_next_wave" \in last_ran
            /\ app_state.k = "Wave"
            /\ app_state # last_entry.app_state)
           => app_state.w < num_waves

(***************************************************************************)
(* Claims about pickups.                                                   *)
(***************************************************************************)
\* fly_to_target sent the pickup's OnPickedUpEvent in this tick
PickedUp == Len(pickup_events) > 0

\* the tick is over: the commands of Last have been applied
PickupTickOver == pickup_phase = "First"

\* the receiver's inventory is the one of the tick's start with one unit of
\* the item more
OneUnitAdded(item) ==
    \A i \in Item :
        get_item_count(receiver_items, i) =
            get_item_count(pickup_log.before, i) + (IF i = item THEN 1 ELSE 0)

\* what the claim says but for the phase of the despawn, which is one of phases
PickedUpOnce(phases) ==
    /\ \A id \in 1..MaxPickups : pickup_sent[id] <= 1 /\ pickup_adds[id] <= 1
    /\ pickup_log.added => PickedUp /\ pickup_log.despawned # "PreUpdate"
    /\ (PickupTickOver /\ PickedUp) =>
          /\ pickup_events[1].pickup_entity = pickup.id
          /\ pickup_adds[pickup.id] = 1
          /\ pickup_log.added
          /\ OneUnitAdded(pickup.item)
          /\ pickup.state = "gone"
          /\ pickup_log.despawned \in phases

LeavesWave ==
    /\ app_state.k = "Wave"
    /\ app_state.w >= 1
    /\ app_state' # app_state
    /\ app_state' # Lost

\* C29: every wave index k >= 1 that is entered has its descriptor's enemy
\* batch and shop offers emitted exactly once, descriptor 0 is never emitted,
\* and the state leaves Wave(k) for Wave(k+1) or Win only when the enemies
\* requested for wave k have been spawned and none is alive.
C29_WaveBatchOnce ==
    /\ [](/\ wave_emitted[0] = 0
          /\ \A k \in 1..(MaxWaves + 1) :
                /\ wave_emitted[k] <= 1
                /\ (app_state = Wave(k)) => wave_emitted[k] = 1)
    /\ [][LeavesWave =>
             /\ wave_emitted[app_state.w] = 1
             /\ CountHostile(spawn_player_event) = 0
             /\ robots = 0]_vars

(***************************************************************************)
(* Claims about the loss.                                                  *)
(***************************************************************************)
LossNotes == Cardinality({i \in 1..Len(notification_event) :
                             notification_event[i].text = "You Lost!"})

\* C30: loss handling fires at most once per game: handle_loss sends one
\* "You Lost!" in the tick in which it runs, that tick ends in Lost, Lost is
\* never left, and in a tick that begins in Lost handle_loss sends nothing and
\* queues nothing, even though the loss predicate holds.
C30_LossOnce ==
    /\ [](/\ LossNotes <= 1
          /\ (EndOfTick /\ LossNotes = 1) => app_state = Lost
          /\ (schedule = "Last" /\ last_entry.app_state = Lost)
                => (LossNotes = 0 /\ ~lost_command))
    /\ [][app_state = Lost => app_state' = Lost]_vars

\* handle_loss's conditions were evaluated in a tick that began in Lost, after
\* the warm-up, with the loss predicate true
C30_Witness ==
    /\ schedule = "Last"
    /\ last_entry.app_state = Lost
    /\ last_entry.frame_count > 3
    /\ "handle_loss" \in last_ran
    /\ check_for_loss
    /\ LossNotes = 0
====
